---- MODULE Spec2Model ----
(***************************************************************************)
(* State-machine model of the whisper-script batch pipeline:               *)
(* run_whisper.main (discovery, conversion cache, transcription matrix),   *)
(* Configuration.transcribe (output naming, provenance log),               *)
(* Transcriber.transcribe (validation, service call, saving results) and   *)
(* the conversion loop of scripts/convert_to_wav.py.                       *)
(*                                                                         *)
(* Strings are sequences of one-character strings, so that the path and    *)
(* name conversions are computed character by character as the code does.  *)
(* Dictionary keys are plain strings.                                      *)
(***************************************************************************)
EXTENDS Integers, Sequences, FiniteSets, TLC

(***************************************************************************)
(* Bounds of the model.                                                    *)
(***************************************************************************)
\* largest number of files in raw_audio
MaxFiles == 2

\* largest number of entries of the run_configuration list
MaxConfigs == 2

\* largest number of invocations of run_whisper.main over the same project
MaxRuns == 2

\* largest number of midnights the wall clock passes
MaxTicks == 1

\* largest length of the names the sanitizer is given character by character
MaxNameLen == 3

(***************************************************************************)
(* Characters and strings.                                                 *)
(***************************************************************************)
LowerChars == <<"a", "b", "c", "d", "e", "f", "g", "h", "i", "j", "k", "l", "m",
                "n", "o", "p", "q", "r", "s", "t", "u", "v", "w", "x", "y", "z">>

UpperChars == <<"A", "B", "C", "D", "E", "F", "G", "H", "I", "J", "K", "L", "M",
                "N", "O", "P", "Q", "R", "S", "T", "U", "V", "W", "X", "Y", "Z">>

DigitChars == <<"0", "1", "2", "3", "4", "5", "6", "7", "8", "9">>

Range(f) == {f[i] : i \in DOMAIN f}

Min(a, b) == IF a < b THEN a ELSE b

\* Python's None; no string of characters equals it
None == <<"None">>

\* truth value of a str-or-None, as `if not name` / `a if a else b` read it
Truthy(v) == v # None /\ v # << >>

\* str.lower() on one character
LowerChr(c) ==
    IF c \in Range(UpperChars)
    THEN LowerChars[CHOOSE i \in DOMAIN UpperChars : UpperChars[i] = c]
    ELSE c

\* str.lower()
Lower(s) == [i \in DOMAIN s |-> LowerChr(s[i])]

\* str.rfind of one character, 1-based; 0 when absent
RFind(s, c) ==
    IF \E i \in DOMAIN s : s[i] = c
    THEN CHOOSE i \in DOMAIN s : s[i] = c /\ \A j \in DOMAIN s : s[j] = c => j <= i
    ELSE 0

RECURSIVE JoinWith(_, _)
\* sep.join(parts)
JoinWith(parts, sep) ==
    IF parts = << >> THEN << >>
    ELSE IF Len(parts) = 1 THEN parts[1]
    ELSE parts[1] \o sep \o JoinWith(Tail(parts), sep)

RECURSIVE Dec(_, _)
\* the decimal digits of n, zero-padded to width w (strftime's %Y, %m, %d)
Dec(n, w) ==
    IF w = 0 THEN << >> ELSE Append(Dec(n \div 10, w - 1), DigitChars[(n % 10) + 1])

(***************************************************************************)
(* pathlib.  A path is the sequence of its parts; an absolute path starts  *)
(* with the part "/".                                                      *)
(***************************************************************************)
Slash == <<"/">>

Dot == <<".">>

\* str(path)
PathStr(p) ==
    IF p = << >> THEN Dot
    ELSE IF p[1] = Slash THEN Slash \o JoinWith(Tail(p), Slash)
    ELSE JoinWith(p, Slash)

\* path.name
PathName(p) == p[Len(p)]

\* path.parent
PathParent(p) == SubSeq(p, 1, Len(p) - 1)

\* PurePath.suffix on a file name
Suffix(name) ==
    LET i == RFind(name, ".")
    IN  IF 1 < i /\ i < Len(name) THEN SubSeq(name, i, Len(name)) ELSE << >>

\* PurePath.stem on a file name
Stem(name) ==
    LET i == RFind(name, ".")
    IN  IF 1 < i /\ i < Len(name) THEN SubSeq(name, 1, i - 1) ELSE name

\* path.with_suffix(suffix)
WithSuffix(p, suffix) ==
    LET name == PathName(p)
        old  == Suffix(name)
        new  == IF old = << >> THEN name \o suffix
                ELSE SubSeq(name, 1, Len(name) - Len(old)) \o suffix
    IN  Append(PathParent(p), new)

\* os.path.join of two strings
OsPathJoin2(a, b) ==
    IF b # << >> /\ b[1] = "/" THEN b
    ELSE IF a = << >> \/ a[Len(a)] = "/" THEN a \o b
    ELSE a \o Slash \o b

RECURSIVE OsPathJoin(_)
\* os.path.join(*parts), parts a non-empty sequence of strings
OsPathJoin(parts) ==
    IF Len(parts) = 1 THEN parts[1]
    ELSE OsPathJoin(<<OsPathJoin2(parts[1], parts[2])>> \o SubSeq(parts, 3, Len(parts)))

(***************************************************************************)
(* Program constants of run_whisper.py.                                    *)
(***************************************************************************)
TARGET_WAV_EXTENSION == <<".", "w", "a", "v">>

RAW_AUDIO_DIR_NAME == <<"r", "a", "w", "_", "a", "u", "d", "i", "o">>

CONVERTED_WAVS_DIR_NAME == <<"c", "o", "n", "v", "e", "r", "t", "e", "d", "_", "w", "a", "v", "s">>

TRANSCRIPTIONS_DIR_NAME == <<"t", "r", "a", "n", "s", "c", "r", "i", "p", "t", "i", "o", "n", "s">>

(***************************************************************************)
(* Configuration._sanitize_foldername.                                     *)
(***************************************************************************)
\* the characters of [a-zA-Z0-9_-]
AllowedChars == Range(LowerChars) \cup Range(UpperChars) \cup Range(DigitChars) \cup {"_", "-"}

\* the truncation length of _sanitize_foldername
MaxFolderNameLen == 200

\* re.sub(r"\\s+", "_", s): in a raw string the pattern \\s+ is a literal
\* backslash followed by one or more "s".  A match starts at every backslash
\* that an "s" follows and takes the whole run of "s"; each match becomes
\* one underscore.
SubWhitespace(s) ==
    LET isStart(i) == s[i] = "\\" /\ i < Len(s) /\ s[i + 1] = "s"
        inMatch(j) == /\ s[j] = "s"
                      /\ \E i \in 1..(j - 1) :
                            isStart(i) /\ \A k \in (i + 1)..j : s[k] = "s"
        marked == [i \in 1..Len(s) |->
                      IF isStart(i) THEN "_" ELSE IF inMatch(i) THEN "" ELSE s[i]]
    IN  SelectSeq(marked, LAMBDA c : c # "")

\* re.sub(r"[^a-zA-Z0-9_-]", "", s)
StripDisallowed(s) == SelectSeq(s, LAMBDA c : c \in AllowedChars)

\* a slip: the result is not truncated
SanitizeFoldernameUntruncated(name) ==
    IF ~Truthy(name)
    THEN <<"u", "n", "n", "a", "m", "e", "d", "_", "c", "o", "n", "f", "i", "g", "u", "r", "a", "t", "i", "o", "n">>
    ELSE LET temp_name == StripDisallowed(SubWhitespace(name))
         IN  IF temp_name = << >>
             THEN <<"s", "a", "n", "i", "t", "i", "z", "e", "d", "_", "e", "m", "p", "t", "y", "_", "n", "a", "m", "e">>
             ELSE temp_name

SanitizeFoldername(name) ==
    IF ~Truthy(name)
    THEN <<"u", "n", "n", "a", "m", "e", "d", "_", "c", "o", "n", "f", "i", "g", "u", "r", "a", "t", "i", "o", "n">>
    ELSE LET stripped == StripDisallowed(SubWhitespace(name))
             temp_name == SubSeq(stripped, 1, Min(Len(stripped), MaxFolderNameLen))
         IN  IF temp_name = << >>
             THEN <<"s", "a", "n", "i", "t", "i", "z", "e", "d", "_", "e", "m", "p", "t", "y", "_", "n", "a", "m", "e">>
             ELSE temp_name

(***************************************************************************)
(* The wall clock, and datetime.now().strftime("%Y-%m-%d").                *)
(***************************************************************************)
StartClock == [year |-> 2025, month |-> 6, day |-> 10]

DateString(c) == Dec(c.year, 4) \o <<"-">> \o Dec(c.month, 2) \o <<"-">> \o Dec(c.day, 2)

(***************************************************************************)
(* WhisperSettings: setting name -> <<service key, default value>>.        *)
(* Floats are kept as their literals; a character outside ASCII is kept    *)
(* as its code point.                                                      *)
(***************************************************************************)
WhisperSettingsInit ==
       "upload_file" :> <<"files", None>>
    @@ "input_folder" :> <<"input_folder_path", << >>>>
    @@ "include_subdirectory" :> <<"include_subdirectory", FALSE>>
    @@ "save_same_dir" :> <<"save_same_dir", TRUE>>
    @@ "file_format" :> <<"file_format", <<"S", "R", "T">>>>
    @@ "add_timestamp" :> <<"add_timestamp", FALSE>>
    @@ "model" :> <<"progress", <<"l", "a", "r", "g", "e", "-", "v", "2">>>>
    @@ "language" :> <<"param_7", <<"A", "u", "t", "o", "m", "a", "t", "i", "c", " ", "D", "e", "t", "e", "c", "t", "i", "o", "n">>>>
    @@ "translate_to_english" :> <<"param_8", FALSE>>
    @@ "beam_size" :> <<"param_9", 5>>
    @@ "log_prob_threshold" :> <<"param_10", -1>>
    @@ "no_speech_threshold" :> <<"param_11", <<"0", ".", "6">>>>
    @@ "compute_type" :> <<"param_12", <<"f", "l", "o", "a", "t", "1", "6">>>>
    @@ "best_of" :> <<"param_13", 5>>
    @@ "patience" :> <<"param_14", 1>>
    @@ "condition_on_prev_text" :> <<"param_15", TRUE>>
    @@ "prompt_reset_on_temp" :> <<"param_16", <<"0", ".", "5">>>>
    @@ "initial_prompt" :> <<"param_17", << >>>>
    @@ "temperature" :> <<"param_18", 0>>
    @@ "compression_ratio_threshold" :> <<"param_19", <<"2", ".", "4">>>>
    @@ "length_penalty" :> <<"param_20", 1>>
    @@ "repetition_penalty" :> <<"param_21", 1>>
    @@ "no_repeat_ngram_size" :> <<"param_22", 0>>
    @@ "prefix" :> <<"param_23", << >>>>
    @@ "suppress_blank" :> <<"param_24", TRUE>>
    @@ "suppress_tokens" :> <<"param_25", <<"[", "-", "1", "]">>>>
    @@ "max_initial_timestamp" :> <<"param_26", 1>>
    @@ "word_timestamps" :> <<"param_27", FALSE>>
    @@ "prepend_punctuations" :> <<"param_28", <<"\"", "'", "U+201C", "U+00BF", "(", "[", "{", "-">>>>
    @@ "append_punctuations" :> <<"param_29", <<"\"", "'", ".", "U+3002", ",", "U+FF0C", "!", "U+FF01", "?", "U+FF1F", ":", "U+FF1A", "U+201D", ")", "]", "}", "U+3001">>>>
    @@ "max_new_tokens" :> <<"param_30", 0>>
    @@ "chunk_length_s" :> <<"param_31", 30>>
    @@ "hallucination_silence_threshold_sec" :> <<"param_32", 0>>
    @@ "hotwords" :> <<"param_33", << >>>>
    @@ "language_detection_threshold" :> <<"param_34", <<"0", ".", "5">>>>
    @@ "language_detection_segments" :> <<"param_35", 1>>
    @@ "batch_size" :> <<"param_36", 24>>
    @@ "offload_whisper_model" :> <<"param_37", TRUE>>
    @@ "enable_silero_vad_filter" :> <<"param_38", FALSE>>
    @@ "vad_speech_threshold" :> <<"param_39", <<"0", ".", "5">>>>
    @@ "vad_min_speech_duration_ms" :> <<"param_40", 250>>
    @@ "vad_max_speech_duration_s" :> <<"param_41", 9999>>
    @@ "vad_min_silence_duration_ms" :> <<"param_42", 1000>>
    @@ "vad_speech_padding_ms" :> <<"param_43", 2000>>
    @@ "enable_diarization" :> <<"param_44", FALSE>>
    @@ "whisper_device" :> <<"param_45", <<"c", "u", "d", "a">>>>
    @@ "huggingface_token" :> <<"param_46", << >>>>
    @@ "offload_diarization_model" :> <<"param_47", TRUE>>
    @@ "enable_bg_music_remover_filter" :> <<"param_48", FALSE>>
    @@ "bg_music_remover_model" :> <<"param_49", <<"U", "V", "R", "-", "M", "D", "X", "-", "N", "E", "T", "-", "I", "n", "s", "t", "_", "H", "Q", "_", "4">>>>
    @@ "bg_remover_device" :> <<"param_50", <<"c", "u", "d", "a">>>>
    @@ "segment_size" :> <<"param_51", 256>>
    @@ "save_separated_files_to_output" :> <<"param_52", FALSE>>
    @@ "offload_sub_model_after_removing_bg_music" :> <<"param_53", TRUE>>
    @@ "api_name" :> <<"api_name", <<"/", "t", "r", "a", "n", "s", "c", "r", "i", "b", "e", "_", "f", "i", "l", "e">>>>

\* WhisperSettings.setting_keys
SettingKeys == DOMAIN WhisperSettingsInit

\* the values of Transcriber.WhisperModel
WhisperModels == {
    <<"t", "i", "n", "y", ".", "e", "n">>,
    <<"t", "i", "n", "y">>,
    <<"b", "a", "s", "e", ".", "e", "n">>,
    <<"b", "a", "s", "e">>,
    <<"s", "m", "a", "l", "l", ".", "e", "n">>,
    <<"s", "m", "a", "l", "l">>,
    <<"m", "e", "d", "i", "u", "m", ".", "e", "n">>,
    <<"m", "e", "d", "i", "u", "m">>,
    <<"l", "a", "r", "g", "e", "-", "v", "1">>,
    <<"l", "a", "r", "g", "e", "-", "v", "2">>,
    <<"l", "a", "r", "g", "e", "-", "v", "3">>,
    <<"l", "a", "r", "g", "e">>,
    <<"w", "h", "i", "s", "p", "e", "r", "-", "l", "a", "r", "g", "e", "-", "v", "3", "-", "t", "u", "r", "b", "o">>,
    <<"k", "b", "-", "w", "h", "i", "s", "p", "e", "r", "-", "l", "a", "r", "g", "e", "-", "c", "t", "2">> }

\* the named parameters of Transcriber.transcribe; every other keyword lands in **kwargs
TranscribeParams ==
    {"file_name", "model", "vad", "language", "output_path", "tag",
     "override_output_folder", "settings", "original_filename", "disable_args_file"}

(***************************************************************************)
(* Dictionaries are functions from keys to values.                         *)
(***************************************************************************)
\* dict.get(k, default) and the value of dict.pop(k, default)
DictGet(d, k, default) == IF k \in DOMAIN d THEN d[k] ELSE default

\* the dictionary without the keys ks
DictWithout(d, ks) == [k \in DOMAIN d \ ks |-> d[k]]

\* the dictionary after d[k] = v
DictSet(d, k, v) == [x \in DOMAIN d \cup {k} |-> IF x = k THEN v ELSE d[x]]

RECURSIVE SplitOn(_, _)
\* s.split(c) for a one-character separator
SplitOn(s, c) ==
    IF \A i \in DOMAIN s : s[i] # c THEN <<s>>
    ELSE LET i == CHOOSE k \in DOMAIN s : s[k] = c /\ \A j \in 1..(k - 1) : s[j] # c
         IN  <<SubSeq(s, 1, i - 1)>> \o SplitOn(SubSeq(s, i + 1, Len(s)), c)

\* Path(s).parts: empty and "." components are dropped
ParsePath(s) ==
    LET pieces == SelectSeq(SplitOn(s, "/"), LAMBDA x : x # << >> /\ x # Dot)
    IN  IF s # << >> /\ s[1] = "/" THEN <<Slash>> \o pieces ELSE pieces

\* s.startswith(prefix)
StartsWith(s, prefix) == Len(prefix) <= Len(s) /\ SubSeq(s, 1, Len(prefix)) = prefix

RECURSIVE LStrip(_, _)
\* s.lstrip(c)
LStrip(s, c) == IF s # << >> /\ s[1] = c THEN LStrip(Tail(s), c) ELSE s

(***************************************************************************)
(* The project on disk and the run-configuration document.                 *)
(***************************************************************************)
\* args.project_dir.resolve()
ProjectPath == <<Slash, <<"p">>>>

RawAudioPath == Append(ProjectPath, RAW_AUDIO_DIR_NAME)

ConvertedWavsRootPath == Append(ProjectPath, CONVERTED_WAVS_DIR_NAME)

TranscriptionsRootPath == Append(ProjectPath, TRANSCRIPTIONS_DIR_NAME)

\* the files raw_audio may hold, as paths relative to raw_audio
RawUniverse ==
    { <<(<<"a", ".", "m", "p", "3">>)>>,
      <<(<<"a", ".", "f", "l", "a", "c">>)>>,
      <<(<<"s", "u", "b">>), (<<"b", ".", "w", "a", "v">>)>> }

\* the configuration of the documented scenario
CfgScenario ==
    [description |-> <<"s", "w", "e", "d", "i", "s", "h", "_", "l", "a", "r", "g", "e", "_", "v", "2">>,
     model |-> <<"l", "a", "r", "g", "e", "-", "v", "2">>,
     language |-> <<"s", "w", "e", "d", "i", "s", "h">>]

\* an empty description and a setting the registry does not know
CfgBogus ==
    [description |-> << >>,
     model |-> <<"l", "a", "r", "g", "e", "-", "v", "2">>,
     language |-> <<"s", "w", "e", "d", "i", "s", "h">>,
     bogus_param |-> 1]

\* no description, no language, and a model that is no WhisperModel
CfgBadModel == [model |-> <<"H", "u", "g", "e", " ", "v", "9">>]

\* a description and a model, no language
CfgNoLanguage ==
    [description |-> <<"a", "u", "t", "o">>,
     model |-> <<"L", "a", "r", "g", "e", "-", "v", "3">>,
     beam_size |-> 3]

\* the content of WhisperTranscriber.demo_config
CfgDemo ==
    [description |-> <<"s", "w", "e", "d", "i", "s", "h", "_", "l", "a", "r", "g", "e", "_", "v", "2", "_", "w", "i", "t", "h", "_", "v", "a", "d", "_", "0", ".", "5">>,
     language |-> <<"s", "w", "e", "d", "i", "s", "h">>,
     model |-> <<"l", "a", "r", "g", "e", "-", "v", "2">>,
     file_format |-> <<"S", "R", "T">>,
     condition_on_prev_text |-> FALSE,
     vad |-> TRUE,
     vad_speech_threshold |-> <<"0", ".", "5">>,
     subfolder |-> <<"s", "a", "f", "e", "_", "s", "w", "e", "d", "i", "s", "h", "/", "l", "a", "r", "g", "e", "_", "v", "2", "/", "v", "a", "d", "/", "0", ".", "5">>]

ConfigUniverse == {CfgScenario, CfgBogus, CfgBadModel}

\* the sequences without repetition over S of length 1..n
DistinctSeqs(S, n) ==
    UNION { { s \in [1..k -> S] : \A i, j \in 1..k : i # j => s[i] # s[j] } : k \in 1..n }

(***************************************************************************)
(* Transcriber.transcribe.                                                 *)
(*   fileExists : os.path.exists(file_name)                                *)
(*   params     : the keyword arguments other than model, language and     *)
(*                override_output_folder                                   *)
(*   svc        : what the service and the saving of its result do:        *)
(*                "ok", "service_error" (client.predict raises) or         *)
(*                "save_error" (reading or writing a result file raises)   *)
(* The service answers with one subtitle file.                             *)
(***************************************************************************)
\* a slip: a keyword that is no setting is skipped instead of rejected
TranscriberRaisedDropsUnknown(fileExists, model, params, svc) ==
    IF {"file_name", "model", "language", "override_output_folder"} \cap DOMAIN params # {}
    THEN "TypeError"
    ELSE IF "settings" \in DOMAIN params THEN "AttributeError"
    ELSE IF ~fileExists THEN "FileNotFoundError"
    ELSE IF model = None THEN "TypeError"
    ELSE IF Lower(model) \notin WhisperModels THEN "ValueError"
    ELSE IF svc = "service_error" THEN "ServiceError"
    ELSE IF svc = "save_error" THEN "OSError"
    ELSE "none"

TranscriberRaised(fileExists, model, params, svc) ==
    LET kwargs == DictWithout(params, TranscribeParams)
    IN  IF {"file_name", "model", "language", "override_output_folder"} \cap DOMAIN params # {}
        THEN "TypeError"
        ELSE IF "settings" \in DOMAIN params THEN "AttributeError"
        ELSE IF ~fileExists THEN "FileNotFoundError"
        ELSE IF model = None THEN "TypeError"
        ELSE IF Lower(model) \notin WhisperModels THEN "ValueError"
        ELSE IF DOMAIN kwargs \ SettingKeys # {} THEN "KeyError"
        ELSE IF svc = "service_error" THEN "ServiceError"
        ELSE IF svc = "save_error" THEN "OSError"
        ELSE "none"

\* a slip: the service is called before the arguments are validated
PredictReachedBeforeChecks(raised) == TRUE

\* whether client.predict is reached
PredictReached(raised) == raised \in {"none", "ServiceError", "OSError"}

\* datetime.now().strftime("%Y_%m_%d")
DateStringUnderscore(c) ==
    Dec(c.year, 4) \o <<"_">> \o Dec(c.month, 2) \o <<"_">> \o Dec(c.day, 2)

\* "Using_Silence_Reduction" if vad else "Not_Using_Silence_Reduction"
VadStatus(vad) ==
    IF vad
    THEN <<"U", "s", "i", "n", "g", "_", "S", "i", "l", "e", "n", "c", "e", "_", "R", "e", "d", "u", "c", "t", "i", "o", "n">>
    ELSE <<"N", "o", "t", "_", "U", "s", "i", "n", "g", "_", "S", "i", "l", "e", "n", "c", "e", "_", "R", "e", "d", "u", "c", "t", "i", "o", "n">>

RECURSIVE SaveResultFiles(_, _, _, _, _, _, _, _)
\* the loop of Transcriber.transcribe that saves the files the service
\* returned; output_path is the loop's variable of that name, which every
\* iteration assigns.  The result is, per file, the directory and the
\* path it is written to.
SaveResultFiles(filenames, output_path, now, tag, model_type, vad, override_output_folder, original_filename) ==
    IF filenames = << >> THEN << >>
    ELSE LET filename == Head(filenames)
             joined == OsPathJoin(<<output_path, DateStringUnderscore(now),
                                    IF Truthy(tag) THEN tag ELSE << >>,
                                    model_type, VadStatus(vad)>>)
             assigned == IF override_output_folder # None
                         THEN override_output_folder ELSE joined
             output_filename == IF original_filename # None
                                THEN original_filename \o Suffix(filename)
                                ELSE filename
         IN  <<[directory |-> assigned,
                path |-> OsPathJoin(<<assigned, output_filename>>)]>>
                 \o SaveResultFiles(Tail(filenames), assigned, now, tag, model_type, vad,
                                    override_output_folder, original_filename)

\* settings[key] = value, and settings.key = value for a key of the registry
SettingsSet(settings, key, value) == [settings EXCEPT ![key] = <<@[1], value>>]

\* WhisperSettings.get_settings: service key -> value
GetSettings(settings) ==
    [service_key \in {settings[key][1] : key \in DOMAIN settings} |->
        settings[CHOOSE key \in DOMAIN settings : settings[key][1] = service_key][2]]

\* **settings.get_settings() as Transcriber.transcribe hands it to
\* client.predict: a new WhisperSettings, then the file, the language, the
\* model and vad, then every keyword argument
RequestPayload(file_name, model, language, params) ==
    LET vad == DictGet(params, "vad", FALSE)
        kwargs == DictWithout(params, TranscribeParams)
        fresh == WhisperSettingsInit
        named == SettingsSet(SettingsSet(SettingsSet(
                     SettingsSet(fresh, "upload_file", <<"handle_file", file_name>>),
                     "language", language),
                     "model", Lower(model)),
                     "enable_silero_vad_filter", vad)
    IN  GetSettings([key \in DOMAIN named |->
                        IF key \in DOMAIN kwargs THEN <<named[key][1], kwargs[key]>>
                        ELSE named[key]])

TranscriberTranscribe(file_name, fileExists, model, language, override_output_folder, params, svc) ==
    LET raised == TranscriberRaised(fileExists, model, params, svc)
        original_filename == DictGet(params, "original_filename", None)
        result_stem == <<"o", "u", "t">>
        output_stem == IF original_filename # None THEN original_filename ELSE result_stem
        srt == OsPathJoin(<<override_output_folder, output_stem \o <<".", "s", "r", "t">>>>)
        txt == OsPathJoin(<<override_output_folder, output_stem \o <<".", "t", "x", "t">>>>)
    IN  [raised  |-> raised,
         predict |-> IF PredictReached(raised) THEN 1 ELSE 0,
         payload |-> IF PredictReached(raised)
                     THEN RequestPayload(file_name, model, language, params)
                     ELSE None,
         saved   |-> IF raised = "none" THEN {srt, txt} ELSE {}]

(***************************************************************************)
(* Configuration._write_config_log.  logFs is what the file system does:   *)
(* "ok", or "fail" (mkdir or open raises; the except clause swallows it).  *)
(***************************************************************************)
RelativeOutputPath(final_save_directory, output_base_path) ==
    IF StartsWith(final_save_directory, output_base_path)
    THEN LStrip(SubSeq(final_save_directory, Len(output_base_path) + 1,
                       Len(final_save_directory)), "/")
    ELSE LET parts == ParsePath(final_save_directory)
             isDate(x) == Len(x) = 10 /\ x[5] = "-" /\ x[8] = "-"
             n == Len(parts)
         IN  IF \E i \in 1..n : isDate(parts[i])
             THEN JoinWith(SubSeq(parts,
                                  CHOOSE i \in 1..n :
                                      isDate(parts[i]) /\ \A j \in 1..(i - 1) : ~isDate(parts[j]),
                                  n), Slash)
             ELSE JoinWith(SubSeq(parts, n - Min(3, n) + 1, n), Slash)

\* a slip: the name of the original file where its stem is meant
ParamsLogFilenameFromName(original_relative_path_to_raw, sanitized_folder_name) ==
    PathName(ParsePath(original_relative_path_to_raw))
        \o <<"_", "_">> \o sanitized_folder_name
        \o <<".", "l", "o", "g", ".", "j", "s", "o", "n">>

\* params_log_filename
ParamsLogFilename(original_relative_path_to_raw, sanitized_folder_name) ==
    LET base_audio_filename == Stem(PathName(ParsePath(original_relative_path_to_raw)))
    IN  base_audio_filename \o <<"_", "_">> \o sanitized_folder_name
            \o <<".", "l", "o", "g", ".", "j", "s", "o", "n">>

WriteConfigLog(final_save_directory, original_relative_path_to_raw, processed_filename, description, model_param, language_param, config, sanitized_folder_name, output_base_path, now, logFs) ==
    LET params_log_filename ==
            ParamsLogFilename(original_relative_path_to_raw, sanitized_folder_name)
        params_log_path == PathStr(Append(ParsePath(final_save_directory), params_log_filename))
        log_data ==
            [original_file_relative_to_raw_audio |-> original_relative_path_to_raw,
             processed_wav_filename |-> processed_filename,
             transcription_output_directory |->
                 RelativeOutputPath(final_save_directory, output_base_path),
             \* utcnow().isoformat() + "Z", of which the clock gives the date
             transcription_run_datetime_utc |-> DateString(now),
             configuration_description |-> description,
             configuration_model |-> model_param,
             configuration_language |-> language_param,
             all_parameters_used |-> config]
    IN  [written |-> IF logFs = "ok" THEN 1 ELSE 0,
         path    |-> params_log_path,
         data    |-> log_data]

\* a slip: _write_config_log lets the error of mkdir or open through
WriteConfigLogRaisedPropagates(logFs) == IF logFs = "fail" THEN "OSError" ELSE "none"

\* the exception that leaves _write_config_log: its whole body is inside
\* try / except Exception, which logs the error and returns
WriteConfigLogRaised(logFs) == "none"

\* no log was asked for
NoLog == [written |-> 0, path |-> None, data |-> None]

(***************************************************************************)
(* Configuration.transcribe.  env is what the outside world does during    *)
(* the call: env.log for the log file, env.client for Transcriber()        *)
(* ("ok", or "fail" when the endpoint is not configured or not reachable), *)
(* env.svc for the service.                                                *)
(***************************************************************************)
\* the folder name: the sanitized description, or the sanitized model
FolderName(config) ==
    LET description == DictGet(config, "description", None)
        model_param == DictGet(config, "model", None)
    IN  SanitizeFoldername(IF Truthy(description) THEN description ELSE model_param)

\* a slip: the folder of the configuration is left out of the path
FinalSaveDirectoryWithoutName(output_base_path, date_string, config, relative_audio_subdir) ==
    OsPathJoin(<<output_base_path, date_string>>
                   \o (IF relative_audio_subdir # << >> /\ relative_audio_subdir # Dot
                       THEN <<relative_audio_subdir>> ELSE << >>))

\* a slip: the subdirectory is appended also when it is "."
FinalSaveDirectoryKeepsDot(output_base_path, date_string, config, relative_audio_subdir) ==
    OsPathJoin(<<output_base_path, date_string, FolderName(config), relative_audio_subdir>>)

FinalSaveDirectory(output_base_path, date_string, config, relative_audio_subdir) ==
    LET path_parts ==
            <<output_base_path, date_string, FolderName(config)>>
                \o (IF relative_audio_subdir # << >> /\ relative_audio_subdir # Dot
                    THEN <<relative_audio_subdir>> ELSE << >>)
    IN  OsPathJoin(path_parts)

ConfigurationTranscribe(config, filename, output_base_path, relative_audio_subdir, original_relative_path_to_raw, disable_config_logs, now, fileExists, env) ==
    LET date_string == DateString(now)
        description == DictGet(config, "description", None)
        language_param == DictGet(config, "language", None)
        model_param == DictGet(config, "model", None)
        popped == DictWithout(config, {"description", "language", "model", "subfolder"})
        sanitized_folder_name == FolderName(config)
        final_save_directory ==
            FinalSaveDirectory(output_base_path, date_string, config, relative_audio_subdir)
        log == IF disable_config_logs THEN NoLog
               ELSE WriteConfigLog(final_save_directory, original_relative_path_to_raw,
                                   PathName(ParsePath(filename)), description, model_param,
                                   language_param, config, sanitized_folder_name,
                                   output_base_path, now, env.log)
        active_config_params ==
            DictSet(DictSet(popped, "original_filename", Stem(PathName(ParsePath(filename)))),
                    "disable_args_file", disable_config_logs)
        logRaised == IF disable_config_logs THEN "none" ELSE WriteConfigLogRaised(env.log)
        call == IF logRaised # "none"
                THEN [raised |-> logRaised, predict |-> 0, payload |-> None, saved |-> {}]
                ELSE IF env.client = "ok"
                THEN TranscriberTranscribe(filename, fileExists, model_param, language_param,
                                           final_save_directory, active_config_params, env.svc)
                ELSE [raised |-> "ValueError", predict |-> 0, payload |-> None, saved |-> {}]
    IN  [date_string |-> date_string,
         final_save_directory |-> final_save_directory,
         sanitized_folder_name |-> sanitized_folder_name,
         log |-> log,
         raised |-> call.raised,
         predict |-> call.predict,
         payload |-> call.payload,
         saved |-> call.saved]

(***************************************************************************)
(* State.                                                                  *)
(***************************************************************************)
VARIABLES
    pc,             \* where main() is: "idle", "convert", "transcribe", "done"
    runs,           \* invocations of main() so far
    clock,          \* the wall clock's date
    rawOrder,       \* the files of raw_audio, in the order rglob yields them
    configDoc,      \* the run_configuration list of the configuration document
    wavs,           \* the files of converted_wavs: target path -> file state
    args,           \* the parsed command line and environment of this run
    sources,        \* source_files_to_process
    configurations, \* the Configuration objects' config dictionaries
    si,             \* index of the conversion loop
    wavList,        \* wav_files_for_transcription
    origMap,        \* source_file_to_original_relative_path_map
    ci,             \* index of the configuration loop
    fi,             \* index of the file loop
    summary,        \* the summary counters
    conv,           \* what the last iteration of the conversion loop did
    task,           \* what the last iteration of the transcription loop did
    calls,          \* per (file index, configuration index): calls made so far
    datesUsed,      \* the date segments the tasks of this run resolved their output under
    reported,       \* whether the execution summary was printed
    scriptFiles,    \* convert_to_wav.py: files_to_convert
    sj,             \* convert_to_wav.py: index of the conversion loop
    scriptSummary,  \* convert_to_wav.py: the counters of main()
    outcome,        \* how this invocation of main() ended, and what it logged then
    dirs,           \* the directories main() created before its loops
    written,        \* the files the tasks of this run wrote under the output base
    nameArg,        \* _sanitize_foldername: the argument name
    sanitized,      \* _sanitize_foldername: the value returned
    scanTree,       \* a scan called on its own: the files below the scan root
    scanOutput,     \* find_files_to_convert: output_dir_abs; None for find_convertible_files
    scanResult,     \* a scan called on its own: the files it returned
    saveResult      \* Transcriber.transcribe called on its own: the files saved

scriptVars == <<scriptFiles, sj, scriptSummary>>

\* the arguments and results of the functions that are called on their own
pureVars == <<nameArg, sanitized, scanTree, scanOutput, scanResult, saveResult>>

vars == <<pc, runs, clock, rawOrder, configDoc, wavs, args, sources, configurations,
          si, wavList, origMap, ci, fi, summary, conv, task, calls, datesUsed, reported,
          scriptVars, outcome, dirs, written, pureVars>>

(***************************************************************************)
(* Files of converted_wavs.                                                *)
(***************************************************************************)
\* (converted_wavs_root_path / relative_to_raw).with_suffix(TARGET_WAV_EXTENSION)
TargetWavPath(relative_to_raw) ==
    WithSuffix(ConvertedWavsRootPath \o relative_to_raw, TARGET_WAV_EXTENSION)

Targets == {TargetWavPath(r) : r \in RawUniverse}

Absent == [present |-> FALSE, src |-> << >>, complete |-> FALSE]

\* a file written from source src; complete is FALSE for a partial output
Written(src, complete) == [present |-> TRUE, src |-> src, complete |-> complete]

(***************************************************************************)
(* convert_audio_to_wav_file.  before is the target's state; env is what   *)
(* the outside world does: "ok", "src_missing" (the source vanished),      *)
(* "fail" (ffmpeg exits non-zero or the call raises, and the clean-up      *)
(* leaves no target) or "fail_keep" (as "fail", but unlink raises and the  *)
(* partial target stays).                                                  *)
(***************************************************************************)
ConvertAudioToWavFile(source, before, env) ==
    IF env = "src_missing"
    THEN [ok |-> FALSE, after |-> before, transcoder |-> 0]
    ELSE IF env = "ok"
    THEN [ok |-> TRUE, after |-> Written(source, TRUE), transcoder |-> 1]
    ELSE IF env = "fail"
    THEN [ok |-> FALSE, after |-> Absent, transcoder |-> 1]
    ELSE [ok |-> FALSE, after |-> Written(source, FALSE), transcoder |-> 1]

ConvertEnvs == {"ok", "src_missing", "fail", "fail_keep"}

\* shutil.copy2 after mkdir: "ok", "fail" (raises, target untouched) or
\* "fail_keep" (raises after the target was opened for writing)
CopyEnvs == {"ok", "fail", "fail_keep"}

(***************************************************************************)
(* One iteration of the conversion loop of main().  The result names the   *)
(* summary counter that grows, the target's state afterwards, whether the  *)
(* target is appended to wav_files_for_transcription, and the external     *)
(* work done (transcoder runs, copies).                                    *)
(***************************************************************************)
\* a slip: the existence test is dropped
SkipExistingDropped(before, force_convert) == FALSE

\* the test that guards both skip branches
SkipExisting(before, force_convert) == before.present /\ ~force_convert

\* a slip: the force flag is read the wrong way round
ConversionStepFlagInverted(source_file, before, a, env) ==
    LET isWav == Lower(Suffix(PathName(source_file))) = TARGET_WAV_EXTENSION
    IN  IF before.present /\ a.force_convert
        THEN [counter |-> "conversion_skipped_exists", after |-> before,
              appended |-> TRUE, transcoder |-> 0, copy |-> 0]
        ELSE IF a.dry_run
        THEN [counter |-> IF isWav THEN "files_copied_as_wav" ELSE "files_converted",
              after |-> before, appended |-> TRUE, transcoder |-> 0, copy |-> 0]
        ELSE IF isWav
        THEN IF env = "ok"
             THEN [counter |-> "files_copied_as_wav", after |-> Written(source_file, TRUE),
                   appended |-> TRUE, transcoder |-> 0, copy |-> 1]
             ELSE [counter |-> "conversion_failed",
                   after |-> IF env = "fail" THEN before ELSE Written(source_file, FALSE),
                   appended |-> FALSE, transcoder |-> 0, copy |-> 1]
        ELSE LET r == ConvertAudioToWavFile(source_file, before, env)
             IN  [counter |-> IF r.ok THEN "files_converted" ELSE "conversion_failed",
                  after |-> r.after, appended |-> r.ok,
                  transcoder |-> r.transcoder, copy |-> 0]

\* a slip: a file whose conversion failed is prepared for transcription all the same
ConversionStepAppendsFailed(source_file, before, a, env) ==
    LET isWav == Lower(Suffix(PathName(source_file))) = TARGET_WAV_EXTENSION
    IN  IF SkipExisting(before, a.force_convert)
        THEN [counter |-> "conversion_skipped_exists", after |-> before,
              appended |-> TRUE, transcoder |-> 0, copy |-> 0]
        ELSE IF a.dry_run
        THEN [counter |-> IF isWav THEN "files_copied_as_wav" ELSE "files_converted",
              after |-> before, appended |-> TRUE, transcoder |-> 0, copy |-> 0]
        ELSE IF isWav
        THEN IF env = "ok"
             THEN [counter |-> "files_copied_as_wav", after |-> Written(source_file, TRUE),
                   appended |-> TRUE, transcoder |-> 0, copy |-> 1]
             ELSE [counter |-> "conversion_failed",
                   after |-> IF env = "fail" THEN before ELSE Written(source_file, FALSE),
                   appended |-> TRUE, transcoder |-> 0, copy |-> 1]
        ELSE LET r == ConvertAudioToWavFile(source_file, before, env)
             IN  [counter |-> IF r.ok THEN "files_converted" ELSE "conversion_failed",
                  after |-> r.after, appended |-> TRUE,
                  transcoder |-> r.transcoder, copy |-> 0]

ConversionStep(source_file, before, a, env) ==
    LET isWav == Lower(Suffix(PathName(source_file))) = TARGET_WAV_EXTENSION
    IN  IF SkipExisting(before, a.force_convert)
        THEN [counter |-> "conversion_skipped_exists", after |-> before,
              appended |-> TRUE, transcoder |-> 0, copy |-> 0]
        ELSE IF a.dry_run
        THEN [counter |-> IF isWav THEN "files_copied_as_wav" ELSE "files_converted",
              after |-> before, appended |-> TRUE, transcoder |-> 0, copy |-> 0]
        ELSE IF isWav
        THEN IF env = "ok"
             THEN [counter |-> "files_copied_as_wav", after |-> Written(source_file, TRUE),
                   appended |-> TRUE, transcoder |-> 0, copy |-> 1]
             ELSE [counter |-> "conversion_failed",
                   after |-> IF env = "fail" THEN before ELSE Written(source_file, FALSE),
                   appended |-> FALSE, transcoder |-> 0, copy |-> 1]
        ELSE LET r == ConvertAudioToWavFile(source_file, before, env)
             IN  [counter |-> IF r.ok THEN "files_converted" ELSE "conversion_failed",
                  after |-> r.after, appended |-> r.ok,
                  transcoder |-> r.transcoder, copy |-> 0]

(***************************************************************************)
(* The configuration sources.  A JSON document is kept by the type of its  *)
(* top-level value; configDoc is the run_configuration list of good.json.  *)
(***************************************************************************)
NotJson == [type |-> "invalid", value |-> << >>]

JsonObject(d) == [type |-> "object", value |-> d]

JsonArray(a) == [type |-> "array", value |-> a]

JsonNumber == [type |-> "number", value |-> << >>]

ConfigPathGood == <<"g", "o", "o", "d", ".", "j", "s", "o", "n">>

ConfigPathBroken == <<"b", "r", "o", "k", "e", "n", ".", "j", "s", "o", "n">>

ConfigPathNoKey == <<"n", "o", "k", "e", "y", ".", "j", "s", "o", "n">>

ConfigPathArray == <<"a", "r", "r", "a", "y", ".", "j", "s", "o", "n">>

ConfigPathNumber == <<"n", "u", "m", "b", "e", "r", ".", "j", "s", "o", "n">>

ConfigPathMissing == <<"m", "i", "s", "s", "i", "n", "g", ".", "j", "s", "o", "n">>

ConfigPaths ==
    {ConfigPathGood, ConfigPathBroken, ConfigPathNoKey, ConfigPathArray, ConfigPathNumber,
     ConfigPathMissing}

\* what --configuration path names: config_file_path, whether it exists
\* (there or in the script's configurations directory), and its content
ConfigSource(path, doc) ==
    [path   |-> path,
     exists |-> path # ConfigPathMissing,
     json   |-> IF path = ConfigPathGood THEN JsonObject([run_configuration |-> doc])
                ELSE IF path = ConfigPathNoKey THEN JsonObject([configurations |-> doc])
                ELSE IF path = ConfigPathArray THEN JsonArray(<< >>)
                ELSE IF path = ConfigPathNumber THEN JsonNumber
                ELSE NotJson]

\* WhisperTranscriber.demo_config: the text is its own path
DemoSource ==
    [path   |-> <<"d", "e", "m", "o", "_", "c", "o", "n", "f", "i", "g">>,
     exists |-> TRUE,
     json   |-> JsonObject([run_configuration |-> <<CfgDemo>>])]

\* ConfigurationReader.__init__ followed by get_configurations; names are
\* the values the message of the exception carries
ConfigurationReaderInit(configuration_path, json) ==
    IF json.type = "invalid"
    THEN [raised |-> "ValueError", names |-> {configuration_path}, configurations |-> << >>]
    ELSE IF json.type = "number"
    THEN \* "run_configuration" not in 5
         [raised |-> "TypeError", names |-> {}, configurations |-> << >>]
    ELSE IF json.type = "array"
    THEN IF \E i \in DOMAIN json.value : json.value[i] = "run_configuration"
         THEN [raised |-> "TypeError", names |-> {}, configurations |-> << >>]
         ELSE [raised |-> "ValueError", names |-> {configuration_path},
               configurations |-> << >>]
    ELSE IF "run_configuration" \notin DOMAIN json.value
    THEN [raised |-> "ValueError", names |-> {configuration_path}, configurations |-> << >>]
    ELSE [raised |-> "none", names |-> {}, configurations |-> json.value["run_configuration"]]

(***************************************************************************)
(* The command line.                                                       *)
(***************************************************************************)
\* the value of HF_TOKEN when it is set
HfToken == <<"h", "f", "_", "s", "e", "c", "r", "e", "t">>

\* --convert-extensions mp3,flac,wav, parsed
ParsedExtensions ==
    {<<".", "m", "p", "3">>, <<".", "f", "l", "a", "c">>, <<".", "w", "a", "v">>}

RunArgs ==
    { [force_convert |-> f, dry_run |-> d, no_config_logs |-> n,
       enable_diarization |-> z, hf_token |-> t, recursive |-> TRUE, tag |-> None,
       convert_extensions |-> ParsedExtensions,
       configuration |-> ConfigPathGood, run_description |-> None] :
        f \in BOOLEAN, d \in BOOLEAN, n \in BOOLEAN,
        z \in {FALSE}, t \in {None} }

NoArgs ==
    [force_convert |-> FALSE, dry_run |-> FALSE, no_config_logs |-> FALSE,
     enable_diarization |-> FALSE, hf_token |-> None, recursive |-> TRUE, tag |-> None,
     convert_extensions |-> {}, configuration |-> None, run_description |-> None]

\* transcriptions_output_base
TranscriptionsOutputBase(a) ==
    IF a.tag # None THEN Append(TranscriptionsRootPath, a.tag) ELSE TranscriptionsRootPath

\* a slip: the suffix is compared as it is spelled
FindConvertibleFilesCaseSensitive(files, target_extensions, recursive) ==
    SelectSeq(files,
              LAMBDA f : /\ recursive \/ Len(f) = 1
                         /\ Suffix(PathName(f)) \in target_extensions)

\* a slip: the scan is recursive whatever was asked
FindConvertibleFilesAlwaysRecursive(files, target_extensions, recursive) ==
    SelectSeq(files,
              LAMBDA f : Lower(Suffix(PathName(f))) \in {Lower(e) : e \in target_extensions})

RECURSIVE DirectoryEntries(_, _)
\* what scan_directory.rglob("*") yields for a tree holding files: every
\* file and every directory above one, a directory before what it holds;
\* seen are the directories already yielded
DirectoryEntries(files, seen) ==
    IF files = << >> THEN << >>
    ELSE LET f == Head(files)
             above == [d \in 1..(Len(f) - 1) |-> SubSeq(f, 1, d)]
             new == SelectSeq(above, LAMBDA a : a \notin seen)
         IN  new \o <<f>> \o
             DirectoryEntries(Tail(files), seen \cup {new[k] : k \in DOMAIN new})

\* find_convertible_files over the files of scan_directory
FindConvertibleFiles(files, target_extensions, recursive) ==
    LET normalized == {Lower(e) : e \in target_extensions}
        \* scan_directory.rglob("*") if recursive else scan_directory.glob("*")
        iterator == SelectSeq(DirectoryEntries(files, {}),
                              LAMBDA item : recursive \/ Len(item) = 1)
        is_file(item) == \E i \in DOMAIN files : files[i] = item
    IN  SelectSeq(iterator,
                  LAMBDA item : /\ is_file(item)
                                /\ Lower(Suffix(PathName(item))) \in normalized)

SummaryInit ==
    [source_files_found |-> 0, files_converted |-> 0, files_copied_as_wav |-> 0,
     conversion_skipped_exists |-> 0, conversion_failed |-> 0,
     wav_files_for_transcription |-> 0, transcriptions_submitted |-> 0,
     transcription_errors |-> 0, configs_to_run |-> 0]

NoConv == [kind |-> "none"]

NoTask == [kind |-> "none"]

Pairs == (1..MaxFiles) \X (1..MaxConfigs)

NoCalls == [p \in Pairs |-> [attempts |-> 0, predict |-> 0]]

\* convert_to_wav.py: the counters main() starts with
ScriptSummaryInit ==
    [successful_conversions |-> 0, failed_conversions |-> 0, skipped_existing |-> 0]

(***************************************************************************)
(* How an invocation of main() stands: "none" (not invoked), "running",    *)
(* "returned" (an early return, at names the test that took it), "raised"  *)
(* (an exception left main(), at names it) or "finished" (the summary was  *)
(* printed).  names are the values the last error message carries.         *)
(***************************************************************************)
Outcome(kind, at, names) == [kind |-> kind, at |-> at, names |-> names]

NoOutcome == Outcome("none", "", {})

Running == Outcome("running", "", {})

\* [c for c in configurations if c.config.get("description") == args.run_description]
FilterByDescription(configs, run_description) ==
    SelectSeq(configs, LAMBDA c : DictGet(c, "description", None) = run_description)

\* main(): loading and filtering the configurations
LoadConfigurations(a, doc) ==
    LET src == IF a.configuration = None THEN DemoSource
               ELSE ConfigSource(a.configuration, doc)
        reader == ConfigurationReaderInit(src.path, src.json)
        filtered == IF Truthy(a.run_description)
                    THEN FilterByDescription(reader.configurations, a.run_description)
                    ELSE reader.configurations
    IN  IF ~src.exists
        THEN [outcome |-> Outcome("returned", "configuration_missing", {a.configuration}),
              configurations |-> << >>]
        ELSE IF reader.raised # "none"
        THEN [outcome |-> Outcome("raised", reader.raised, reader.names),
              configurations |-> << >>]
        ELSE IF reader.configurations = << >>
        THEN [outcome |-> Outcome("returned", "no_configurations", {}),
              configurations |-> << >>]
        ELSE IF Truthy(a.run_description) /\ filtered = << >>
        THEN \* the message reads config_file_path, which is bound only when
             \* --configuration was given
             IF a.configuration = None
             THEN [outcome |-> Outcome("raised", "UnboundLocalError", {}),
                   configurations |-> << >>]
             ELSE [outcome |-> Outcome("returned", "no_matching_description",
                                       {a.run_description, src.path}),
                   configurations |-> << >>]
        ELSE [outcome |-> Running, configurations |-> filtered]

\* what the outside world does to the checks main() starts with: "ok",
\* "no_ffmpeg" (ffmpeg is not on the PATH) or "mkdir_fails"; raw_audio is
\* a directory in every project of the model
StartupEnvs == {"ok", "no_ffmpeg", "mkdir_fails"}

\* a slip: the directories are made in a dry run too
EnsuredDirectoriesAlways(a) == {ConvertedWavsRootPath, TranscriptionsOutputBase(a)}

\* the directories main() makes before it loads the configurations
EnsuredDirectories(a) ==
    IF ~a.dry_run THEN {ConvertedWavsRootPath, TranscriptionsOutputBase(a)} ELSE {}

\* main() up to the conversion loop
MainStartup(a, doc, files, startup) ==
    LET made == EnsuredDirectories(a)
        load == LoadConfigurations(a, doc)
        found == FindConvertibleFiles(files, a.convert_extensions, a.recursive)
        loaded == [SummaryInit EXCEPT !.configs_to_run = Len(load.configurations)]
        none == << >>
    IN  IF startup = "no_ffmpeg"
        THEN [outcome |-> Outcome("returned", "check_ffmpeg", {}), dirs |-> {},
              configurations |-> none, sources |-> none, summary |-> SummaryInit]
        ELSE IF made # {} /\ startup = "mkdir_fails"
        THEN [outcome |-> Outcome("returned", "mkdir", {}), dirs |-> {},
              configurations |-> none, sources |-> none, summary |-> SummaryInit]
        ELSE IF load.outcome.kind # "running"
        THEN [outcome |-> load.outcome, dirs |-> made,
              configurations |-> none, sources |-> none, summary |-> SummaryInit]
        ELSE IF found = << >>
        THEN [outcome |-> Outcome("returned", "no_source_files", {}), dirs |-> made,
              configurations |-> load.configurations, sources |-> found,
              summary |-> loaded]
        ELSE [outcome |-> Running, dirs |-> made,
              configurations |-> load.configurations, sources |-> found,
              summary |-> [loaded EXCEPT !.source_files_found = Len(found)]]

\* the value nameArg and sanitized have before the call and outside it
Unset == <<"unset">>

(***************************************************************************)
(* Initial state: a project with some raw files, an empty converted_wavs   *)
(* tree, a configuration document, and main() not yet invoked.             *)
(***************************************************************************)
InitProject(docs) ==
    /\ pc = "idle"
    /\ runs = 0
    /\ clock = StartClock
    /\ rawOrder \in DistinctSeqs(RawUniverse, MaxFiles)
    /\ configDoc \in docs
    /\ wavs = [t \in Targets |-> Absent]
    /\ args = NoArgs
    /\ sources = << >>
    /\ configurations = << >>
    /\ si = 1
    /\ wavList = << >>
    /\ origMap = << >>
    /\ ci = 1
    /\ fi = 1
    /\ summary = SummaryInit
    /\ conv = NoConv
    /\ task = NoTask
    /\ calls = NoCalls
    /\ datesUsed = {}
    /\ reported = FALSE
    /\ scriptFiles = << >>
    /\ sj = 1
    /\ scriptSummary = ScriptSummaryInit
    /\ outcome = NoOutcome
    /\ dirs = {}
    /\ written = {}

\* no function has been called on its own
InitPure ==
    /\ nameArg = Unset
    /\ sanitized = Unset
    /\ scanTree = << >>
    /\ scanOutput = None
    /\ scanResult = Unset
    /\ saveResult = Unset

InitWith(docs) == InitProject(docs) /\ InitPure

Init == InitWith(DistinctSeqs(ConfigUniverse, MaxConfigs))

(***************************************************************************)
(* main() up to the conversion loop: arguments, configurations, discovery. *)
(***************************************************************************)
StartRunIn(argSet, limit) ==
    /\ pc \in {"idle", "done"}
    /\ runs < limit
    /\ \E a \in argSet, startup \in StartupEnvs :
        /\ (a.dry_run => startup # "mkdir_fails")
        /\ \E r \in {MainStartup(a, configDoc, rawOrder, startup)} :
            /\ args' = a
            /\ sources' = r.sources
            /\ configurations' = r.configurations
            /\ summary' = r.summary
            /\ outcome' = r.outcome
            /\ dirs' = dirs \cup r.dirs
            /\ pc' = IF r.outcome.kind = "running" THEN "convert" ELSE "done"
    /\ runs' = runs + 1
    /\ si' = 1
    /\ wavList' = << >>
    /\ origMap' = << >>
    /\ ci' = 1
    /\ fi' = 1
    /\ conv' = NoConv
    /\ task' = NoTask
    /\ calls' = NoCalls
    /\ datesUsed' = {}
    /\ reported' = FALSE
    /\ UNCHANGED <<clock, rawOrder, configDoc, wavs, scriptVars, written, pureVars>>

(***************************************************************************)
(* One iteration of the conversion loop; the last one also runs the code   *)
(* between the two loops.                                                  *)
(***************************************************************************)
ConvertStep ==
    /\ pc = "convert"
    /\ si <= Len(sources)
    /\ LET source_file == sources[si]
           target_wav_path == TargetWavPath(source_file)
           isWav == Lower(Suffix(PathName(source_file))) = TARGET_WAV_EXTENSION
       IN  \E env \in (IF isWav THEN CopyEnvs ELSE ConvertEnvs) :
            LET r == ConversionStep(source_file, wavs[target_wav_path], args, env)
                newList == IF r.appended THEN Append(wavList, target_wav_path) ELSE wavList
                last == si = Len(sources)
            IN  /\ (SkipExisting(wavs[target_wav_path], args.force_convert) \/ args.dry_run
                        => env = "ok")
                /\ origMap' = [t \in DOMAIN origMap \cup {target_wav_path} |->
                                  IF t = target_wav_path THEN source_file ELSE origMap[t]]
                /\ wavs' = [wavs EXCEPT ![target_wav_path] = r.after]
                /\ wavList' = newList
                /\ summary' = [summary EXCEPT
                                  ![r.counter] = @ + 1,
                                  !.wav_files_for_transcription =
                                      IF last THEN Len(newList) ELSE @]
                /\ conv' = [kind |-> "step", tool |-> "run_whisper", source |-> source_file,
                            target |-> target_wav_path, before |-> wavs[target_wav_path],
                            after |-> r.after, force |-> args.force_convert,
                            dry |-> args.dry_run, counter |-> r.counter,
                            appended |-> r.appended,
                            transcoder |-> r.transcoder, copy |-> r.copy]
                /\ si' = si + 1
                /\ pc' = IF ~last THEN "convert"
                         ELSE IF newList = << >> THEN "done" ELSE "transcribe"
                /\ outcome' = IF last /\ newList = << >>
                              THEN Outcome("returned", "no_wav_files", {})
                              ELSE outcome
    /\ UNCHANGED <<runs, clock, rawOrder, configDoc, args, sources, configurations,
                   ci, fi, task, calls, datesUsed, reported, scriptVars, dirs, written,
                   pureVars>>

(***************************************************************************)
(* One iteration of the transcription loop of main().                      *)
(***************************************************************************)
\* what the outside world may do during one Configuration.transcribe
\* the environment of a call in which nothing fails
CalmEnv == [log |-> "ok", client |-> "ok", svc |-> "ok"]

\* what the outside world may do during one Configuration.transcribe: nothing,
\* or one fault (writing the log, constructing the client, the service call,
\* saving the result)
TaskEnvs ==
    {CalmEnv, [CalmEnv EXCEPT !.log = "fail"], [CalmEnv EXCEPT !.client = "fail"],
     [CalmEnv EXCEPT !.svc = "service_error"], [CalmEnv EXCEPT !.svc = "save_error"]}

\* the configuration dictionary the task runs with
TaskConfig(config, a) ==
    IF a.enable_diarization
    THEN LET withFlag == DictSet(config, "enable_diarization", TRUE)
         IN  IF Truthy(a.hf_token)
             THEN DictSet(withFlag, "huggingface_token", a.hf_token)
             ELSE withFlag
    ELSE config

\* a slip: the task works on the loaded dictionary itself, no copy is made
LoadedConfigAfterTaskAliased(config, a, filename) ==
    DictSet(DictSet(DictWithout(TaskConfig(config, a),
                                {"description", "language", "model", "subfolder"}),
                    "original_filename", Stem(PathName(ParsePath(filename)))),
            "disable_args_file", a.no_config_logs)

\* configuration_obj.config after one task.  main() writes the overrides
\* to config_copy = configuration_obj.config.copy(), and
\* Configuration.transcribe pops from and writes to active_config_params =
\* self.config.copy(); the values of a dictionary are strings, numbers and
\* booleans, which a shallow copy does not share.  No statement of the
\* task assigns to an item of the dictionary that was copied.
LoadedConfigAfterTask(config, a, filename) == config

\* wav_file_to_transcribe.relative_to(converted_wavs_root_path).parent
RelativeDirForTranscription(wav_file) ==
    PathParent(SubSeq(wav_file, Len(ConvertedWavsRootPath) + 1, Len(wav_file)))

\* source_file_to_original_relative_path_map.get(str(wav), "Unknown_Original_Path")
OriginalRelativePathForLog(map, wav_file) ==
    IF wav_file \in DOMAIN map
    THEN PathStr(map[wav_file])
    ELSE <<"U", "n", "k", "n", "o", "w", "n", "_", "O", "r", "i", "g", "i", "n", "a", "l",
           "_", "P", "a", "t", "h">>

\* a slip: the except clause increments the conversion counter
TaskCounterWrongCounter(raised) ==
    IF raised = "none" THEN "transcriptions_submitted" ELSE "conversion_failed"

\* the counter the try / except of the loop body increments
TaskCounter(raised) ==
    IF raised = "none" THEN "transcriptions_submitted" ELSE "transcription_errors"

\* a slip: the except clause re-raises
ContinueAfterErrorNever == FALSE

\* whether the loop goes on after a task that raised
ContinueAfterError == TRUE

\* what one call of Configuration.transcribe was given and what it did
TaskRecord(kind, c, f, config, filename, output_base_path, relative_audio_subdir, original_relative_path_to_raw, fileExists, env, r) ==
    [kind |-> kind, ci |-> c, fi |-> f,
     config |-> config,
     filename |-> filename,
     output_base_path |-> output_base_path,
     relative_audio_subdir |-> relative_audio_subdir,
     original_relative_path_to_raw |-> original_relative_path_to_raw,
     file_exists |-> fileExists,
     env |-> env,
     date_string |-> r.date_string,
     final_save_directory |-> r.final_save_directory,
     log |-> r.log,
     raised |-> r.raised,
     predict |-> r.predict,
     payload |-> r.payload,
     saved |-> r.saved]

\* the files one call of Configuration.transcribe left under the output
\* base, each with the run, the file and the configuration of the task
TaskWrites(r, run, f, c) ==
    { [path |-> p, kind |-> "output", run |-> run, fi |-> f, ci |-> c,
       date |-> r.date_string] : p \in r.saved }
        \cup (IF r.log.written = 1
              THEN {[path |-> r.log.path, kind |-> "log", run |-> run, fi |-> f, ci |-> c,
                     date |-> r.date_string]}
              ELSE {})

\* a slip: the loops are nested the other way round, files outermost
NextTaskFileMajor(c, f, M, N) ==
    IF c < M THEN <<c + 1, f>> ELSE IF f < N THEN <<1, f + 1>> ELSE <<M + 1, 1>>

\* the position of the two nested loops after the iteration (c, f): the
\* inner loop over the N files, then the outer one over the M configurations
NextTask(c, f, M, N) == IF f < N THEN <<c, f + 1>> ELSE <<c + 1, 1>>

TranscribeStepIn(envs) ==
    /\ pc = "transcribe"
    /\ LET N == Len(wavList)
           M == Len(configurations)
           configuration_obj == configurations[ci]
           wav_file == wavList[fi]
           relative_dir == RelativeDirForTranscription(wav_file)
           original == OriginalRelativePathForLog(origMap, wav_file)
           last == ci = M /\ fi = N
       IN  \E env \in envs :
            /\ (args.dry_run => env = CalmEnv)
            /\ (args.no_config_logs => env.log = "ok")
            /\ IF args.dry_run
               THEN /\ summary' = [summary EXCEPT !.transcriptions_submitted = @ + 1]
                    /\ task' = [kind |-> "dry", ci |-> ci, fi |-> fi,
                                reported_path |->
                                    PathStr(TranscriptionsOutputBase(args) \o relative_dir)]
                    /\ calls' = calls
                    /\ datesUsed' = datesUsed
                    /\ written' = written
                    /\ configurations' = configurations
                    /\ pc' = IF last THEN "done" ELSE "transcribe"
               ELSE \* r is the outcome of the one call the iteration makes
                    \E config \in {TaskConfig(configuration_obj, args)},
                       filename \in {PathStr(wav_file)},
                       base \in {PathStr(TranscriptionsOutputBase(args))},
                       subdir \in {PathStr(relative_dir)} :
                      \E r \in {ConfigurationTranscribe(config, filename, base, subdir,
                                     original, args.no_config_logs, clock,
                                     wavs[wav_file].present, env)} :
                        /\ summary' = [summary EXCEPT ![TaskCounter(r.raised)] = @ + 1]
                        /\ task' = TaskRecord("real", ci, fi, config, filename, base, subdir,
                                              original, wavs[wav_file].present, env, r)
                        /\ calls' = [calls EXCEPT ![<<fi, ci>>] =
                                        [attempts |-> @.attempts + 1,
                                         predict |-> @.predict + r.predict]]
                        /\ datesUsed' = datesUsed \cup {r.date_string}
                        /\ written' = written \cup TaskWrites(r, runs, fi, ci)
                        /\ configurations' =
                              [configurations EXCEPT
                                  ![ci] = LoadedConfigAfterTask(@, args, filename)]
                        /\ pc' = IF last \/ (r.raised # "none" /\ ~ContinueAfterError)
                                 THEN "done" ELSE "transcribe"
            /\ reported' = last
            /\ outcome' = IF pc' = "done" THEN Outcome("finished", "", {}) ELSE outcome
            /\ ci' = NextTask(ci, fi, M, N)[1]
            /\ fi' = NextTask(ci, fi, M, N)[2]
    /\ UNCHANGED <<runs, clock, rawOrder, configDoc, wavs, args, sources,
                   si, wavList, origMap, conv, scriptVars, dirs, pureVars>>

(***************************************************************************)
(* The wall clock passes midnight.                                         *)
(***************************************************************************)
Tick ==
    /\ clock.day < StartClock.day + MaxTicks
    /\ clock' = [clock EXCEPT !.day = @ + 1]
    /\ UNCHANGED <<pc, runs, rawOrder, configDoc, wavs, args, sources, configurations,
                   si, wavList, origMap, ci, fi, summary, conv, task, calls, datesUsed,
                   reported, scriptVars, outcome, dirs, written, pureVars>>

(***************************************************************************)
(* scripts/convert_to_wav.py, run as                                       *)
(*   convert_to_wav.py <project>/raw_audio -o <project>/converted_wavs     *)
(* so that it fills the tree run_whisper.main reads.                       *)
(***************************************************************************)
\* DEFAULT_EXTENSIONS, split and given their leading dot
ScriptExtensions ==
    {<<".", "w", "m", "a">>,
     <<".", "w", "m", "v">>,
     <<".", "m", "p", "3">>,
     <<".", "m", "p", "4">>,
     <<".", "m", "k", "v">>,
     <<".", "a", "a", "c">>,
     <<".", "f", "l", "a", "c">>,
     <<".", "o", "g", "g">>,
     <<".", "m", "4", "a">>,
     <<".", "w", "a", "v">>,
     <<".", "a", "v", "i">>,
     <<".", "m", "o", "v">>,
     <<".", "f", "l", "v">>,
     <<".", "m", "p", "e", "g">>,
     <<".", "m", "p", "g">>,
     <<".", "w", "e", "b", "m">>}

\* output_dir_abs / relative_path / f"{input_file.stem}.wav"
ScriptOutputFile(output_dir_abs, relative) ==
    Append(output_dir_abs \o PathParent(relative),
           Stem(PathName(relative)) \o <<".", "w", "a", "v">>)

\* whether the path p is the path q or lies below it
IsRelativeTo(p, q) == Len(q) <= Len(p) /\ SubSeq(p, 1, Len(q)) = q

\* the files of the directory dir itself, in the order of files
FilesIn(files, dir) == SelectSeq(files, LAMBDA f : PathParent(f) = dir)

\* the subdirectories of dir, each once, in the order files first show them
SubdirsOf(files, dir) ==
    LET below(f) == Len(f) > Len(dir) + 1 /\ IsRelativeTo(f, dir)
        child(f) == SubSeq(f, 1, Len(dir) + 1)
        first == SelectSeq([i \in DOMAIN files |-> i],
                           LAMBDA i : /\ below(files[i])
                                      /\ \A k \in 1..(i - 1) :
                                            ~(below(files[k]) /\ child(files[k]) = child(files[i])))
    IN  [k \in DOMAIN first |-> child(files[first[k]])]

RECURSIVE WalkAndCollect(_, _, _)
\* the loop over os.walk(input_path_abs, topdown=True): todo holds the
\* directories still to visit, the next one first; files and directories
\* are relative to input_path_abs and output_rel is output_dir_abs so
\* written, or None when it lies outside.  The result is the files the
\* loop looks at, in its order.
WalkAndCollect(todo, files, output_rel) ==
    IF todo = << >> THEN << >>
    ELSE LET current_dir == Head(todo)
             subdirs == SubdirsOf(files, current_dir)
             \* output_dir_abs == current_dir_abs / output_dir_relative_name;
             \* the elif below it compares output_dir_abs with
             \* current_dir_abs inside this test and is never true
             outputIsChild == /\ output_rel # None
                              /\ output_rel # << >>
                              /\ PathParent(output_rel) = current_dir
             kept == IF outputIsChild
                     THEN SelectSeq(subdirs, LAMBDA d : d # output_rel)
                     ELSE subdirs
             here == IF output_rel # None /\ current_dir = output_rel
                     THEN << >>
                     ELSE FilesIn(files, current_dir)
         IN  here \o WalkAndCollect(kept \o Tail(todo), files, output_rel)

\* find_files_to_convert on the directory input_path_abs whose files are
\* files (paths relative to it)
FindFilesToConvert(input_path_abs, files, extensions_to_match, output_dir_abs, case_sensitive) ==
    LET matches(f) ==
            LET file_suffix == Suffix(PathName(f))
            IN  (IF case_sensitive THEN file_suffix ELSE Lower(file_suffix))
                    \in extensions_to_match
        output_rel == IF IsRelativeTo(output_dir_abs, input_path_abs)
                      THEN SubSeq(output_dir_abs, Len(input_path_abs) + 1, Len(output_dir_abs))
                      ELSE None
        found == SelectSeq(WalkAndCollect(<<(<< >>)>>, files, output_rel), matches)
    IN  [i \in DOMAIN found |->
            [input |-> found[i], output |-> ScriptOutputFile(output_dir_abs, found[i])]]

\* what the outside world does during convert_file: "ok", "no_dir" (mkdir
\* raises), "fail" (ffmpeg exits non-zero, the partial output is removed),
\* "fail_keep" (as "fail", but unlink raises) or "not_started" (ffmpeg
\* could not be run)
ScriptEnvs == {"ok", "no_dir", "fail", "fail_keep", "not_started"}

ConvertFile(input_file, before, env) ==
    IF env = "no_dir"
    THEN [ok |-> FALSE, after |-> before, transcoder |-> 0]
    ELSE IF before.present
    THEN [ok |-> TRUE, after |-> before, transcoder |-> 0]
    ELSE IF env = "ok"
    THEN [ok |-> TRUE, after |-> Written(input_file, TRUE), transcoder |-> 1]
    ELSE IF env = "fail"
    THEN [ok |-> FALSE, after |-> Absent, transcoder |-> 1]
    ELSE IF env = "fail_keep"
    THEN [ok |-> FALSE, after |-> Written(input_file, FALSE), transcoder |-> 1]
    ELSE [ok |-> FALSE, after |-> before, transcoder |-> 0]

\* main() up to the conversion loop
StartScript ==
    /\ pc \in {"idle", "done"}
    /\ runs < MaxRuns
    /\ \E case_sensitive \in BOOLEAN :
        LET extensions_to_match ==
                IF case_sensitive THEN ScriptExtensions
                ELSE {Lower(e) : e \in ScriptExtensions}
            files_to_convert ==
                FindFilesToConvert(RawAudioPath, rawOrder, extensions_to_match,
                                   ConvertedWavsRootPath, case_sensitive)
        IN  /\ scriptFiles' = files_to_convert
            /\ pc' = IF files_to_convert = << >> THEN "done" ELSE "script"
    /\ runs' = runs + 1
    /\ sj' = 1
    /\ scriptSummary' = ScriptSummaryInit
    /\ conv' = NoConv
    /\ UNCHANGED <<clock, rawOrder, configDoc, wavs, args, sources, configurations,
                   si, wavList, origMap, ci, fi, summary, task, calls, datesUsed, reported,
                   outcome, dirs, written, pureVars>>

\* one iteration of the conversion loop of main()
ScriptConvertStep ==
    /\ pc = "script"
    /\ sj <= Len(scriptFiles)
    /\ LET input_file == scriptFiles[sj].input
           output_file == scriptFiles[sj].output
           before == wavs[output_file]
       IN  \E env \in ScriptEnvs :
            /\ (before.present => env = "ok")
            /\ IF before.present
               THEN /\ scriptSummary' =
                          [scriptSummary EXCEPT !.skipped_existing = @ + 1,
                                                !.successful_conversions = @ + 1]
                    /\ wavs' = wavs
                    /\ conv' = [kind |-> "step", tool |-> "convert_to_wav",
                                source |-> input_file, target |-> output_file,
                                before |-> before, after |-> before, force |-> FALSE,
                                dry |-> FALSE, counter |-> "skipped_existing",
                                appended |-> FALSE, transcoder |-> 0, copy |-> 0]
               ELSE \E r \in {ConvertFile(input_file, before, env)} :
                    /\ scriptSummary' =
                          [scriptSummary EXCEPT
                              ![IF r.ok THEN "successful_conversions"
                                ELSE "failed_conversions"] = @ + 1]
                    /\ wavs' = [wavs EXCEPT ![output_file] = r.after]
                    /\ conv' = [kind |-> "step", tool |-> "convert_to_wav",
                                source |-> input_file, target |-> output_file,
                                before |-> before, after |-> r.after, force |-> FALSE,
                                dry |-> FALSE,
                                counter |-> IF r.ok THEN "successful_conversions"
                                            ELSE "failed_conversions",
                                appended |-> FALSE, transcoder |-> r.transcoder, copy |-> 0]
    /\ sj' = sj + 1
    /\ pc' = IF sj = Len(scriptFiles) THEN "done" ELSE "script"
    /\ UNCHANGED <<runs, clock, rawOrder, configDoc, args, sources, configurations,
                   si, wavList, origMap, ci, fi, summary, task, calls, datesUsed, reported,
                   scriptFiles, outcome, dirs, written, pureVars>>

(***************************************************************************)
(* Spec: one invocation of main() on a fresh project, under every          *)
(* configuration document and every fault of the outside world.            *)
(***************************************************************************)
StartRun == StartRunIn(RunArgs, 1)

TranscribeStep == TranscribeStepIn(TaskEnvs)

Next == StartRun \/ ConvertStep \/ TranscribeStep \/ Tick

Spec == Init /\ [][Next]_vars

(***************************************************************************)
(* SpecCache: repeated invocations of main() and of convert_to_wav.py over  *)
(* the same project, so that a conversion step meets the targets earlier   *)
(* steps left behind.  The configuration document is the scenario's and    *)
(* the service is calm.                                                    *)
(***************************************************************************)
CacheArgs == {a \in RunArgs : ~a.no_config_logs}

InitCache == Init /\ configDoc = <<CfgScenario>>

Rerun == StartRunIn(CacheArgs, MaxRuns)

CalmTranscribeStep == TranscribeStepIn({CalmEnv})

NextCache == Rerun \/ ConvertStep \/ CalmTranscribeStep \/ StartScript \/ ScriptConvertStep

SpecCache == InitCache /\ [][NextCache]_vars

(***************************************************************************)
(* SpecCall: Configuration.transcribe called directly, as a library, with  *)
(* its arguments drawn from bounded sets; one call per behaviour.          *)
(***************************************************************************)
\* output_base_path: absolute, relative, the default "./output", or main()'s
CallBases ==
    {<<"/", "o", "u", "t">>, <<"o", "u", "t">>, <<".", "/", "o", "u", "t", "p", "u", "t">>,
     PathStr(TranscriptionsRootPath)}

\* relative_audio_subdir: str() of a relative directory
CallSubdirs == {Dot, <<"s", "u", "b">>, <<"s", "u", "b", "/", "d", "e", "e", "p">>}

CallConfigs == ConfigUniverse \cup {CfgDemo}

CallStep ==
    /\ pc = "idle"
    /\ task = NoTask
    /\ \E config \in CallConfigs, raw \in RawUniverse, base \in CallBases,
          subdir \in CallSubdirs, disable_config_logs \in BOOLEAN,
          fileExists \in BOOLEAN, env \in TaskEnvs :
        /\ (disable_config_logs => env.log = "ok")
        /\ \E filename \in {PathStr(TargetWavPath(raw))}, original \in {PathStr(raw)} :
            \E r \in {ConfigurationTranscribe(config, filename, base, subdir, original,
                                              disable_config_logs, clock, fileExists, env)} :
                /\ task' = TaskRecord("call", 0, 0, config, filename, base, subdir,
                                      original, fileExists, env, r)
                /\ written' = written \cup TaskWrites(r, 0, 0, 0)
    /\ UNCHANGED <<pc, runs, clock, rawOrder, configDoc, wavs, args, sources, configurations,
                   si, wavList, origMap, ci, fi, summary, conv, calls, datesUsed, reported,
                   scriptVars, outcome, dirs, pureVars>>

InitCall == Init /\ Len(rawOrder) = 1 /\ configDoc = <<CfgScenario>>

NextCall == CallStep \/ Tick

SpecCall == InitCall /\ [][NextCall]_vars

(***************************************************************************)
(* SpecMatrix: one invocation of main() that converts and transcribes,     *)
(* over documents with more than one configuration that runs, under every  *)
(* fault of the outside world.                                             *)
(***************************************************************************)
MatrixUniverse == {CfgScenario, CfgDemo, CfgBogus}

MatrixArgs == {a \in RunArgs : ~a.dry_run /\ ~a.force_convert}

InitMatrix == InitWith(DistinctSeqs(MatrixUniverse, MaxConfigs))

StartMatrix == StartRunIn(MatrixArgs, 1)

NextMatrix == StartMatrix \/ ConvertStep \/ TranscribeStep \/ Tick

SpecMatrix == InitMatrix /\ [][NextMatrix]_vars

(***************************************************************************)
(* SpecLoad: one invocation of main() on a project with one raw file, with *)
(* every configuration source of the model (none, the good document, the   *)
(* faulty ones) and every description filter; the service is calm.         *)
(***************************************************************************)
\* --run-description: absent, the description of the scenario's or of the
\* default configuration, or one that no configuration has
RunDescriptions ==
    {None, CfgScenario.description, CfgDemo.description, <<"n", "o", "p", "e">>}

LoadArgs ==
    { [force_convert |-> FALSE, dry_run |-> d, no_config_logs |-> FALSE,
       enable_diarization |-> FALSE, hf_token |-> None, recursive |-> TRUE, tag |-> None,
       convert_extensions |-> ParsedExtensions,
       configuration |-> c, run_description |-> r] :
        d \in BOOLEAN, c \in {None} \cup ConfigPaths, r \in RunDescriptions }

InitLoad == Init /\ Len(rawOrder) = 1

StartLoad == StartRunIn(LoadArgs, 1)

NextLoad == StartLoad \/ ConvertStep \/ CalmTranscribeStep

SpecLoad == InitLoad /\ [][NextLoad]_vars

(***************************************************************************)
(* SpecPayload: one invocation of main() over configurations that name     *)
(* many, few and not all of the settings the service call takes.           *)
(***************************************************************************)
PayloadUniverse == {CfgScenario, CfgDemo, CfgNoLanguage}

InitPayload == InitWith(DistinctSeqs(PayloadUniverse, MaxConfigs)) /\ Len(rawOrder) = 1

StartPayload == StartRunIn(MatrixArgs, 1)

NextPayload == StartPayload \/ ConvertStep \/ TranscribeStep

SpecPayload == InitPayload /\ [][NextPayload]_vars

(***************************************************************************)
(* SpecDiarize: one invocation of main() with and without                  *)
(* --enable-diarization, HF_TOKEN set or not.                              *)
(***************************************************************************)
DiarizeArgs ==
    { [force_convert |-> FALSE, dry_run |-> d, no_config_logs |-> n,
       enable_diarization |-> z, hf_token |-> t, recursive |-> TRUE, tag |-> None,
       convert_extensions |-> ParsedExtensions,
       configuration |-> ConfigPathGood, run_description |-> None] :
        d \in BOOLEAN, n \in BOOLEAN, z \in BOOLEAN, t \in {None, HfToken} }

InitDiarize == InitWith(DistinctSeqs(MatrixUniverse, MaxConfigs)) /\ Len(rawOrder) = 1

StartDiarize == StartRunIn(DiarizeArgs, 1)

NextDiarize == StartDiarize \/ ConvertStep \/ TranscribeStep

SpecDiarize == InitDiarize /\ [][NextDiarize]_vars

(***************************************************************************)
(* SpecSanitize: Configuration._sanitize_foldername called once, on None,  *)
(* on every string of up to MaxNameLen characters of NameChars, and on     *)
(* some longer names, among them names around the truncation length.       *)
(***************************************************************************)
NameChars == {"a", "B", "7", " ", "\t", "/", ".", "_", "-", "\\", "s"}

\* c * n
Repeat(c, n) == [i \in 1..n |-> c]

LongNames ==
    {<<"a", " ", "b", "/", "c">>,
     <<"a", "\\", "s", "s", "b">>,
     <<"x", " ", "\t", " ", "y", " ", "z">>,
     Repeat("a", MaxFolderNameLen),
     Repeat("a", MaxFolderNameLen + 1),
     Repeat("/", MaxFolderNameLen + 1),
     Repeat("a", MaxFolderNameLen - 1) \o <<" ", "b", "c">>}

NameInputs ==
    {None, << >>} \cup LongNames
        \cup UNION { [1..k -> NameChars] : k \in 1..MaxNameLen }

InitSanitize ==
    /\ InitProject({<<CfgScenario>>})
    /\ rawOrder = <<(<<(<<"a", ".", "m", "p", "3">>)>>)>>
    /\ nameArg \in NameInputs
    /\ sanitized = Unset
    /\ scanTree = << >>
    /\ scanOutput = None
    /\ scanResult = Unset
    /\ saveResult = Unset

\* self._sanitize_foldername(name)
SanitizeStep ==
    /\ sanitized = Unset
    /\ nameArg # Unset
    /\ sanitized' = SanitizeFoldername(nameArg)
    /\ UNCHANGED <<pc, runs, clock, rawOrder, configDoc, wavs, args, sources, configurations,
                   si, wavList, origMap, ci, fi, summary, conv, task, calls, datesUsed,
                   reported, scriptVars, outcome, dirs, written, nameArg, scanTree,
                   scanOutput, scanResult, saveResult>>

NextSanitize == SanitizeStep

SpecSanitize == InitSanitize /\ [][NextSanitize]_vars

(***************************************************************************)
(* SpecScan: find_files_to_convert of scripts/convert_to_wav.py called     *)
(* once, on a directory tree and an output directory drawn from the        *)
(* placements the function tests for.                                      *)
(***************************************************************************)

\* input_path_abs of the scan
ScanInput == <<Slash, <<"p">>, <<"i", "n">>>>

\* the files the scanned tree may hold, relative to ScanInput
ScanUniverse ==
    << <<(<<"a", ".", "m", "p", "3">>)>>,
       << <<"o", "u", "t">>, <<"a", ".", "w", "a", "v">> >>,
       << <<"o", "u", "t">>, <<"d", "e", "e", "p">>, <<"c", ".", "w", "a", "v">> >>,
       << <<"s", "u", "b">>, <<"b", ".", "m", "p", "3">> >>,
       << <<"s", "u", "b">>, <<"o", "u", "t">>, <<"b", ".", "w", "a", "v">> >>,
       << <<"s", "u", "b">>, <<"o", "u", "t">>, <<"m", "o", "r", "e">>, <<"d", ".", "w", "a", "v">> >> >>

\* the trees: every choice of files of ScanUniverse, in its order
ScanTrees ==
    {SelectSeq(ScanUniverse, LAMBDA f : f \in keep) :
        keep \in SUBSET {ScanUniverse[i] : i \in DOMAIN ScanUniverse}}

\* output_dir_abs: the scan root, a direct child, a deeper descendant,
\* outside the tree
ScanOutputs ==
    {ScanInput,
     Append(ScanInput, <<"o", "u", "t">>),
     ScanInput \o << <<"s", "u", "b">>, <<"o", "u", "t">> >>,
     <<Slash, <<"p">>, <<"w", "a", "v", "s">>>>}

InitScan ==
    /\ InitProject({<<CfgScenario>>})
    /\ rawOrder = <<(<<(<<"a", ".", "m", "p", "3">>)>>)>>
    /\ nameArg = Unset
    /\ sanitized = Unset
    /\ scanTree \in ScanTrees
    /\ scanOutput \in ScanOutputs
    /\ scanResult = Unset
    /\ saveResult = Unset

\* find_files_to_convert(input_path, extensions_to_match, output_dir, case_sensitive)
ScanStep ==
    /\ scanResult = Unset
    /\ scanOutput # None
    /\ \E case_sensitive \in BOOLEAN :
         \E r \in {FindFilesToConvert(ScanInput, scanTree, ScriptExtensions,
                                      scanOutput, case_sensitive)} :
            scanResult' = [i \in DOMAIN r |-> r[i].input]
    /\ UNCHANGED <<pc, runs, clock, rawOrder, configDoc, wavs, args, sources, configurations,
                   si, wavList, origMap, ci, fi, summary, conv, task, calls, datesUsed,
                   reported, scriptVars, outcome, dirs, written, nameArg, sanitized,
                   scanTree, scanOutput, saveResult>>

NextScan == ScanStep

SpecScan == InitScan /\ [][NextScan]_vars

(***************************************************************************)
(* SpecSave: Transcriber.transcribe called once on its own, with and       *)
(* without override_output_folder, the service returning one to three      *)
(* files.                                                                  *)
(***************************************************************************)
\* the names of the files the service may return
ResultFileLists ==
    { <<(<<"o", "u", "t", ".", "s", "r", "t">>)>>,
      << <<"o", "u", "t", ".", "s", "r", "t">>, <<"o", "u", "t", ".", "t", "s", "v">> >>,
      << <<"a", ".", "s", "r", "t">>, <<"b", ".", "s", "r", "t">>, <<"c", ".", "t", "x", "t">> >> }

\* the arguments of the call that decide where the files go
SaveCalls ==
    [ filenames : ResultFileLists,
      output_path : {<<".", "/", "o", "u", "t", "p", "u", "t">>, <<"/", "p", "/", "t">>},
      tag : {None, <<"t", "1">>},
      model : {<<"l", "a", "r", "g", "e", "-", "v", "2">>, <<"T", "i", "n", "y">>},
      vad : BOOLEAN,
      override_output_folder : {None, <<"/", "p", "/", "o">>},
      original_filename : {None, <<"a">>} ]

InitSave ==
    /\ InitProject({<<CfgScenario>>})
    /\ rawOrder = <<(<<(<<"a", ".", "m", "p", "3">>)>>)>>
    /\ nameArg = Unset
    /\ sanitized = Unset
    /\ scanTree = << >>
    /\ scanOutput = None
    /\ scanResult = Unset
    /\ saveResult = Unset

\* Transcriber.transcribe(file_name, model, vad, language, output_path, tag,
\* override_output_folder, original_filename=...) on an existing file, the
\* service answering with c.filenames; the result is kept with the call
SaveStep ==
    /\ saveResult = Unset
    /\ \E c \in SaveCalls :
         \E saved \in {SaveResultFiles(c.filenames, c.output_path, clock, c.tag,
                                       Lower(c.model), c.vad, c.override_output_folder,
                                       c.original_filename)} :
            saveResult' = <<saved, c>>
    /\ UNCHANGED <<pc, runs, clock, rawOrder, configDoc, wavs, args, sources, configurations,
                   si, wavList, origMap, ci, fi, summary, conv, task, calls, datesUsed,
                   reported, scriptVars, outcome, dirs, written, nameArg, sanitized,
                   scanTree, scanOutput, scanResult>>

NextSave == SaveStep

SpecSave == InitSave /\ [][NextSave]_vars

(***************************************************************************)
(* SpecDiscover: find_convertible_files called once as main() calls it,    *)
(* on a tree drawn from DiscoverUniverse, followed by the target main()    *)
(* computes for each file found.                                           *)
(***************************************************************************)

\* the files the scanned tree may hold, relative to the scan root; d.mp3
\* is a directory
DiscoverUniverse ==
    << <<(<<"a", ".", "m", "p", "3">>)>>,
       <<(<<"B", ".", "M", "P", "3">>)>>,
       <<(<<"n", ".", "t", "x", "t">>)>>,
       << <<"s", "u", "b">>, <<"b", ".", "w", "a", "v">> >>,
       << <<"s", "u", "b">>, <<"d", "e", "e", "p">>, <<"c", ".", "W", "a", "v">> >>,
       << <<"d", ".", "m", "p", "3">>, <<"x", ".", "t", "x", "t">> >> >>

\* the trees: every choice of files of DiscoverUniverse, in its order
DiscoverTrees ==
    {SelectSeq(DiscoverUniverse, LAMBDA f : f \in keep) :
        keep \in SUBSET {DiscoverUniverse[i] : i \in DOMAIN DiscoverUniverse}}

\* parsed_extensions for --convert-extensions mp3,wav and for wav
ExtensionSets ==
    {{<<".", "m", "p", "3">>, <<".", "w", "a", "v">>}, {<<".", "w", "a", "v">>}}

InitDiscover ==
    /\ InitProject({<<CfgScenario>>})
    /\ rawOrder = <<(<<(<<"a", ".", "m", "p", "3">>)>>)>>
    /\ nameArg = Unset
    /\ sanitized = Unset
    /\ scanTree \in DiscoverTrees
    /\ scanOutput = None
    /\ scanResult = Unset
    /\ saveResult = Unset

\* find_convertible_files(raw_audio_path, parsed_extensions, args.recursive)
\* and, for each file found, relative_to_raw and target_wav_path; the
\* result is kept with the two other arguments of the call
DiscoverStep ==
    /\ scanResult = Unset
    /\ scanOutput = None
    /\ \E recursive \in BOOLEAN, parsed_extensions \in ExtensionSets :
         \E found \in {FindConvertibleFiles(scanTree, parsed_extensions, recursive)} :
            scanResult' = <<[i \in DOMAIN found |->
                                [relative_to_raw |-> found[i],
                                 target_wav_path |-> TargetWavPath(found[i])]],
                            parsed_extensions, recursive>>
    /\ UNCHANGED <<pc, runs, clock, rawOrder, configDoc, wavs, args, sources, configurations,
                   si, wavList, origMap, ci, fi, summary, conv, task, calls, datesUsed,
                   reported, scriptVars, outcome, dirs, written, nameArg, sanitized,
                   scanTree, scanOutput, saveResult>>

NextDiscover == DiscoverStep

SpecDiscover == InitDiscover /\ [][NextDiscover]_vars

(***************************************************************************)
(* Properties.                                                             *)
(***************************************************************************)
\* N: the files prepared for transcription
FilesPrepared == Len(wavList)

\* M: the configurations
ConfigsToRun == Len(configurations)

\* k: the tasks the transcription loop has finished
TasksDone == (ci - 1) * FilesPrepared + (fi - 1)

\* whether the task of file f under configuration c is finished
PairDone(f, c) == (c - 1) * FilesPrepared + (f - 1) < TasksDone

\* main() is in or past the transcription loop of a non-dry run
InMatrix == pc \in {"transcribe", "done"} /\ ~args.dry_run

\* this step is one iteration of the transcription loop of a non-dry run
RealTaskStep == pc = "transcribe" /\ ~args.dry_run /\ <<ci, fi>>' # <<ci, fi>>

Submitted == summary.transcriptions_submitted

Errors == summary.transcription_errors

C1_Step ==
    RealTaskStep =>
        /\ <<Submitted' - Submitted, Errors' - Errors>> \in {<<1, 0>>, <<0, 1>>}
        /\ Submitted' + Errors' = TasksDone'
        /\ (pc' = "done" => Submitted' + Errors' = FilesPrepared * ConfigsToRun)

\* C1: in a non-dry run every task increments exactly one of
\* transcriptions_submitted and transcription_errors, by one; after k tasks
\* their sum is k, and it is N x M when the loop has ended.
C1_CountersSumToTasks == [][C1_Step]_vars

\* a finished 2 x 2 matrix with two submitted and two failed tasks
C1_Witness ==
    /\ pc = "done" /\ reported /\ ~args.dry_run
    /\ FilesPrepared = 2 /\ ConfigsToRun = 2
    /\ Submitted = 2 /\ Errors = 2

PassesChecks(t) ==
    LET model == DictGet(t.config, "model", None)
        extras == DOMAIN t.config \ {"description", "language", "model", "subfolder"}
    IN  /\ t.env.client = "ok"
        /\ extras \cap {"file_name", "override_output_folder", "settings"} = {}
        /\ t.file_exists
        /\ model # None
        /\ Lower(model) \in WhisperModels
        /\ extras \subseteq TranscribeParams \cup SettingKeys

C3_Step ==
    (RealTaskStep /\ task'.raised # "none") =>
        /\ Errors' = Errors + 1
        /\ Submitted' = Submitted
        /\ UNCHANGED <<configurations, wavList, origMap, args, wavs>>
        /\ IF ci = ConfigsToRun /\ fi = FilesPrepared
           THEN pc' = "done" /\ reported'
           ELSE /\ pc' = "transcribe"
                /\ <<ci', fi'>> = IF fi < FilesPrepared THEN <<ci, fi + 1>> ELSE <<ci + 1, 1>>

\* C3: a task that fails increments transcription_errors by one and nothing
\* else; the loop goes on with the next pair of the matrix, and everything
\* the later tasks read (configurations, prepared files, the map of original
\* paths, the arguments, the converted files) is as the failed task found it.
C3_FailureDoesNotAbort == [][C3_Step]_vars

\* a task that succeeds after an earlier task of the same run failed
C3_Witness ==
    /\ InMatrix /\ task.kind = "real"
    /\ task.raised = "none" /\ Errors > 0
    /\ TasksDone >= 2

\* C4 as stated, for the files other than F: every task of a file that was
\* prepared for transcription finds that file, whatever happened to the
\* conversion of other sources.
C4_PreparedFileIsTranscribed ==
    (task.kind = "real" /\ task.env.client = "ok") => task.raised # "FileNotFoundError"

\* C5: a conversion step that finds its target and runs without
\* --force-convert starts neither the transcoder nor a copy, leaves the
\* target as it found it and counts the file as conversion_skipped_exists;
\* this holds in every invocation of main(), whatever produced the target.
C5_ExistingTargetIsSkipped ==
    (conv.kind = "step" /\ conv.before.present /\ ~conv.force) =>
        /\ conv.transcoder = 0
        /\ conv.copy = 0
        /\ conv.after = conv.before
        /\ wavs[conv.target] = conv.before
        /\ conv.tool = "run_whisper" =>
              conv.counter = "conversion_skipped_exists" /\ conv.appended
        /\ conv.tool = "convert_to_wav" => conv.counter = "skipped_existing"

\* a second invocation meets the target the first one converted from the
\* same source, and skips it
C5_Witness ==
    /\ runs = 2
    /\ conv.kind = "step" /\ ~conv.force /\ ~conv.dry
    /\ conv.before = Written(conv.source, TRUE)
    /\ conv.counter = "conversion_skipped_exists"

C6_Step ==
    \A t \in Targets :
        (wavs[t].present /\ wavs'[t] # wavs[t]) =>
            /\ pc = "convert"
            /\ args.force_convert
            /\ ~args.dry_run
            /\ TargetWavPath(sources[si]) = t

\* C6: an existing converted file changes (is rewritten, replaced or
\* deleted) only in a conversion step on that very target that runs with
\* --force-convert; no step without the flag, and no other part of main(),
\* touches it.
C6_ExistingTargetKeptUnlessForced == [][C6_Step]_vars

\* a step without --force-convert met a target made from another source and
\* left it alone
C6_Witness ==
    /\ conv.kind = "step" /\ ~conv.force /\ ~conv.dry
    /\ conv.before.present /\ conv.before.complete
    /\ conv.before.src # conv.source
    /\ wavs[conv.target] = conv.before

\* C7 as stated: a task that fails leaves no provenance log written by it,
\* and a successful task writes its log (logging enabled, file system
\* willing).
C7_LogOnlyOnSuccess ==
    task.kind = "real" =>
        /\ (task.raised # "none" => task.log.written = 0)
        /\ (task.raised = "none" /\ ~args.no_config_logs /\ task.env.log = "ok"
                => task.log.written = 1)

\* C8 as stated: all tasks of one invocation resolve their output directory
\* under one date segment.
C8_OneDatePerRun == Cardinality(datesUsed) <= 1

\* the expected directory, composed segment by segment
ExpectedDirectory(t) ==
    LET description == DictGet(t.config, "description", None)
        model == DictGet(t.config, "model", None)
        name == SanitizeFoldername(IF description # None /\ description # << >>
                                   THEN description ELSE model)
    IN  t.output_base_path \o Slash \o t.date_string \o Slash \o name
            \o (IF t.relative_audio_subdir = Dot THEN << >>
                ELSE Slash \o t.relative_audio_subdir)

ScenarioDirectory ==
    <<"/", "o", "u", "t", "/", "2", "0", "2", "5", "-", "0", "6", "-", "1", "0", "/",
      "s", "w", "e", "d", "i", "s", "h", "_", "l", "a", "r", "g", "e", "_", "v", "2", "/",
      "s", "u", "b">>

\* the task of the scenario: swedish_large_v2 on sub/b.wav, base /out, 2025-06-10
IsScenarioTask(t) ==
    /\ t.config = CfgScenario
    /\ t.output_base_path = <<"/", "o", "u", "t">>
    /\ t.date_string = <<"2", "0", "2", "5", "-", "0", "6", "-", "1", "0">>
    /\ t.relative_audio_subdir = <<"s", "u", "b">>
    /\ t.original_relative_path_to_raw = <<"s", "u", "b", "/", "b", ".", "w", "a", "v">>

\* C9: the output directory of a call is output_base / date /
\* sanitize(description, or model when there is no description) / subdir,
\* the last segment left out when the subdirectory is "."; whatever else
\* happens during the call has no part in it; the scenario resolves to
\* /out/2025-06-10/swedish_large_v2/sub.
C9_OutputDirectoryComposition ==
    task.kind \in {"real", "call"} =>
        /\ task.final_save_directory = ExpectedDirectory(task)
        /\ (IsScenarioTask(task) => task.final_save_directory = ScenarioDirectory)

\* the scenario call, and a call on a file of the scan root
C9_Witness ==
    /\ task.kind = "call" /\ IsScenarioTask(task)
    /\ task.final_save_directory = ScenarioDirectory

\* the directory part and the name part of a path string
DirName(p) == SubSeq(p, 1, RFind(p, "/") - 1)

BaseName(p) == SubSeq(p, RFind(p, "/") + 1, Len(p))

ScenarioLogName ==
    <<"b", "_", "_", "s", "w", "e", "d", "i", "s", "h", "_", "l", "a", "r", "g", "e", "_",
      "v", "2", ".", "l", "o", "g", ".", "j", "s", "o", "n">>

\* C10: the log of a call lies in the call's output directory, next to the
\* transcription files, and is named {stem of the original file}__{sanitized
\* configuration name}.log.json; the scenario's log is
\* b__swedish_large_v2.log.json.
C10_LogNameAndPlace ==
    (task.kind \in {"real", "call"} /\ task.log # NoLog) =>
        /\ ParsePath(DirName(task.log.path)) = ParsePath(task.final_save_directory)
        /\ BaseName(task.log.path) =
              Stem(BaseName(task.original_relative_path_to_raw)) \o <<"_", "_">>
                  \o FolderName(task.config) \o <<".", "l", "o", "g", ".", "j", "s", "o", "n">>
        /\ \A f \in task.saved : ParsePath(DirName(f)) = ParsePath(DirName(task.log.path))
        /\ (IsScenarioTask(task) => BaseName(task.log.path) = ScenarioLogName)

\* the scenario call wrote its log and its transcription into one directory
C10_Witness ==
    /\ task.kind = "call" /\ IsScenarioTask(task)
    /\ task.log.written = 1 /\ task.saved # {}
    /\ BaseName(task.log.path) = ScenarioLogName

\* the writes of the tasks of the current invocation of main()
WrittenThisRun == {w \in written : w.run = runs /\ w.fi > 0}

\* the sanitized name of the configuration the task of w ran with
WriterName(w) == SanitizeFoldername(
    LET config == configurations[w.ci]
        description == DictGet(config, "description", None)
    IN  IF Truthy(description) THEN description ELSE DictGet(config, "model", None))

\* w1 and w2 were written by tasks of different (converted file,
\* configuration) pairs
DistinctTasks(w1, w2) == wavList[w1.fi] # wavList[w2.fi] \/ w1.ci # w2.ci

\* C11: within one invocation and on one date, two tasks of different
\* (converted file, configuration) pairs write the same transcription file
\* or the same log file only if their configurations have the same sanitized
\* name.
C11_NoCollisionUnlessSameName ==
    \A w1, w2 \in WrittenThisRun :
        (w1.date = w2.date /\ w1.path = w2.path /\ DistinctTasks(w1, w2))
            => WriterName(w1) = WriterName(w2)

\* the loop has ended and on one date four tasks (two files in different
\* directories, two configurations with different names) wrote both their
\* transcription and their log
C11_Witness ==
    /\ pc = "done" /\ reported
    /\ \A f \in 1..2, c \in 1..2 : \A k \in {"output", "log"} :
          \E w \in WrittenThisRun : w.fi = f /\ w.ci = c /\ w.kind = k
    /\ \A w1, w2 \in WrittenThisRun : w1.date = w2.date
    /\ wavList[1] # wavList[2]
    /\ WriterName([ci |-> 1]) # WriterName([ci |-> 2])

\* the whitespace of Python's \s that the names of the model contain
IsWhitespace(c) == c \in {" ", "\t"}

\* s with every maximal run of whitespace replaced by one underscore
CollapseWhitespace(s) ==
    LET marked == [i \in 1..Len(s) |->
                      IF ~IsWhitespace(s[i]) THEN s[i]
                      ELSE IF i > 1 /\ IsWhitespace(s[i - 1]) THEN "" ELSE "_"]
    IN  SelectSeq(marked, LAMBDA c : c # "")

\* C12 as stated: the value returned for a name is the name with every
\* maximal run of whitespace replaced by one underscore and then every
\* character outside [A-Za-z0-9_-] removed (where that is neither empty nor
\* longer than the truncation length); sanitize("a b/c") = "a_bc".
C12_WhitespaceBecomesUnderscore ==
    (sanitized # Unset /\ Truthy(nameArg)) =>
        LET expected == SelectSeq(CollapseWhitespace(nameArg), LAMBDA c : c \in AllowedChars)
        IN  /\ (expected # << >> /\ Len(expected) <= MaxFolderNameLen) => sanitized = expected
            /\ nameArg = <<"a", " ", "b", "/", "c">> => sanitized = <<"a", "_", "b", "c">>

SentinelUnnamed == <<"u", "n", "n", "a", "m", "e", "d", "_", "c", "o", "n", "f", "i", "g", "u", "r", "a", "t", "i", "o", "n">>

SentinelEmpty == <<"s", "a", "n", "i", "t", "i", "z", "e", "d", "_", "e", "m", "p", "t", "y", "_", "n", "a", "m", "e">>

\* C13: the sanitizer returns, for None, the empty string and every other
\* name, a non-empty string of at most 200 characters of [A-Za-z0-9_-];
\* "unnamed_configuration" for None and the empty string, and
\* "sanitized_empty_name" for a non-empty name none of whose characters is
\* kept, such as "...".
C13_SanitizeTotalAndSafe ==
    sanitized # Unset =>
        /\ sanitized # << >>
        /\ Len(sanitized) <= 200
        /\ \A i \in DOMAIN sanitized :
              sanitized[i] \in Range(LowerChars) \cup Range(UpperChars) \cup Range(DigitChars)
                                  \cup {"_", "-"}
        /\ (nameArg \in {None, << >>} => sanitized = SentinelUnnamed)
        /\ (nameArg = <<".", ".", ".">> => sanitized = SentinelEmpty)
        /\ (nameArg \notin {None, << >>}
               /\ (\A i \in DOMAIN nameArg :
                      nameArg[i] \notin Range(LowerChars) \cup Range(UpperChars)
                                            \cup Range(DigitChars) \cup {"_", "-"})
               => sanitized = SentinelEmpty)

\* the name "..." was sanitized to the sentinel
C13_Witness == nameArg = <<".", ".", ".">> /\ sanitized = SentinelEmpty

\* the configuration holds a key that is neither read by
\* Configuration.transcribe, nor a parameter of Transcriber.transcribe, nor a
\* key of the settings registry
HasUnknownSetting(config) ==
    DOMAIN config \ ({"description", "language", "model", "subfolder"}
                        \cup TranscribeParams \cup SettingKeys) # {}

ReachesSettingsCheck(t) ==
    LET model == DictGet(t.config, "model", None)
    IN  /\ t.env.client = "ok"
        /\ DOMAIN t.config \cap {"file_name", "override_output_folder", "settings"} = {}
        /\ t.file_exists
        /\ model # None
        /\ Lower(model) \in WhisperModels

C14_Step ==
    (RealTaskStep /\ HasUnknownSetting(task'.config)) =>
        /\ task'.raised # "none"
        /\ task'.predict = 0
        /\ task'.saved = {}
        /\ (ReachesSettingsCheck(task') => task'.raised = "KeyError")
        /\ Errors' = Errors + 1
        /\ Submitted' = Submitted
        /\ IF ci = ConfigsToRun /\ fi = FilesPrepared
           THEN pc' = "done" /\ reported'
           ELSE /\ pc' = "transcribe"
                /\ <<ci', fi'>> = IF fi < FilesPrepared THEN <<ci, fi + 1>> ELSE <<ci + 1, 1>>

MainStep == pc \in {"convert", "transcribe"} \/ (runs' # runs /\ pc' # "script")

C15_Step ==
    (MainStep /\ args'.dry_run) =>
        /\ UNCHANGED <<wavs, dirs, written>>
        /\ (conv'.kind = "step" => conv'.transcoder = 0 /\ conv'.copy = 0)
        /\ task'.kind # "real"
        /\ \A p \in Pairs : calls'[p].attempts = 0 /\ calls'[p].predict = 0

\* C15: no step of a dry run of main() runs the transcoder, copies a file,
\* calls Configuration.transcribe or the service, or changes the file system:
\* the converted files, the directories and the files under the output base
\* stay as the run found them, whatever earlier runs left in the project.
C15_DryRunChangesNothing == [][C15_Step]_vars

\* a dry run went through both loops over a project in which an earlier run
\* had made directories, converted files and written transcriptions
C15_Witness ==
    /\ runs = 2 /\ args.dry_run /\ pc = "done" /\ reported
    /\ summary.transcriptions_submitted > 0
    /\ dirs # {} /\ written # {}
    /\ \E t \in Targets : wavs[t].present

\* the dates the wall clock shows during a behaviour
Dates == {DateString([StartClock EXCEPT !.day = d]) :
              d \in StartClock.day..(StartClock.day + MaxTicks)}

\* the output directories the task of file f under configuration c would
\* use in a run that is not dry
RealOutputDirectories(f, c) ==
    {FinalSaveDirectory(PathStr(TranscriptionsOutputBase(args)), d,
                        TaskConfig(configurations[c], args),
                        PathStr(RelativeDirForTranscription(wavList[f]))) : d \in Dates}

\* C16 as stated: the path a dry run reports for a task is the output
\* directory the task would use in a real run: output_base / run date /
\* sanitized configuration name / relative subdirectory.
C16_DryRunReportsOutputDirectory ==
    task.kind = "dry" => task.reported_path \in RealOutputDirectories(task.fi, task.ci)

\* main() was invoked and got past check_ffmpeg and the mkdir calls
PastStartupChecks == runs > 0 /\ outcome.at \notin {"check_ffmpeg", "mkdir"}

\* nothing was converted, copied or submitted in this behaviour
NoWorkDone ==
    /\ pc = "done"
    /\ conv = NoConv /\ task = NoTask
    /\ \A t \in Targets : ~wavs[t].present
    /\ written = {}
    /\ summary.files_converted = 0 /\ summary.files_copied_as_wav = 0
    /\ summary.transcriptions_submitted = 0

\* the configuration sources that are not valid JSON or whose top-level
\* value has no run_configuration key
MalformedSources == {ConfigPathBroken, ConfigPathNoKey, ConfigPathArray, ConfigPathNumber}

\* C17 as stated: when the configuration source is not valid JSON or has no
\* top-level run_configuration key, loading fails with an error that names
\* the source, and the run stops before any conversion, copy or task.
C17_MalformedConfigurationStopsRun ==
    (PastStartupChecks /\ args.configuration \in MalformedSources) =>
        /\ outcome.kind = "raised"
        /\ args.configuration \in outcome.names
        /\ NoWorkDone

\* the configurations loaded before the filter is applied
LoadedConfigurations == IF args.configuration = None THEN <<CfgDemo>> ELSE configDoc

\* C18 as stated: with a description filter, the configurations that run
\* are those whose description equals it; when none does, the run ends
\* with the no-matching-configuration error, which names the requested
\* description, and nothing is converted or transcribed -- for a supplied
\* document and for the built-in default configuration alike.
C18_FilterSelectsOrFails ==
    (PastStartupChecks /\ args.configuration \in {None, ConfigPathGood}
         /\ args.run_description # None) =>
        IF \E i \in DOMAIN LoadedConfigurations :
               DictGet(LoadedConfigurations[i], "description", None) = args.run_description
        THEN /\ configurations # << >>
             /\ \A i \in DOMAIN configurations :
                   /\ configurations[i].description = args.run_description
                   /\ \E j \in DOMAIN LoadedConfigurations :
                         LoadedConfigurations[j] = configurations[i]
        ELSE /\ outcome = Outcome("returned", "no_matching_description", outcome.names)
             /\ args.run_description \in outcome.names
             /\ NoWorkDone

\* main() went into its conversion loop, so every check it starts with passed
EnteredConversionLoop == conv.kind = "step" /\ conv.tool = "run_whisper"

\* C19 as stated: an invocation of main() that got past the startup checks
\* has, when it has ended, printed the summary report; in particular when it
\* counted a failed conversion or a failed task.
C19_EndedRunHasReported ==
    (pc = "done" /\ EnteredConversionLoop) =>
        /\ reported
        /\ outcome.kind = "finished"

\* C20: file discovery never returns a file located in or below the
\* canonical-audio output directory, wherever that directory lies: equal
\* to the scan root, a direct child of it, a deeper descendant, or outside
\* the tree.
C20_DiscoveryAvoidsOutputDirectory ==
    scanResult # Unset =>
        \A i \in DOMAIN scanResult :
            ~IsRelativeTo(ScanInput \o scanResult[i], scanOutput)

\* the files of the tree the claim says discovery returns
ExpectedDiscovery(tree, extensions, recursive) ==
    {f \in Range(tree) : /\ Lower(Suffix(PathName(f))) \in extensions
                         /\ recursive \/ Len(f) = 1}

\* the same relative path under the canonical-audio root, suffix .wav
MirroredWav(relative) ==
    ConvertedWavsRootPath \o PathParent(relative)
        \o <<Stem(PathName(relative)) \o <<".", "w", "a", "v">>>>

\* C21: discovery returns exactly the regular files under the scan root
\* whose lower-cased suffix is in the extension set, at every depth when
\* recursive and only the direct children when not; each keeps its path
\* relative to the root and its conversion target is that relative path
\* under the canonical-audio root with suffix .wav.
C21_DiscoveryReturnsExactlyMatches ==
    scanResult # Unset =>
        /\ {scanResult[1][i].relative_to_raw : i \in DOMAIN scanResult[1]}
              = ExpectedDiscovery(scanTree, scanResult[2], scanResult[3])
        /\ \A i, k \in DOMAIN scanResult[1] :
              scanResult[1][i].relative_to_raw = scanResult[1][k].relative_to_raw
                  => i = k
        /\ \A i \in DOMAIN scanResult[1] :
              scanResult[1][i].target_wav_path
                  = MirroredWav(scanResult[1][i].relative_to_raw)

\* the documented scenario: a.mp3 and sub/b.wav, scanned recursively
C21_Witness ==
    /\ scanResult # Unset
    /\ scanTree = << <<(<<"a", ".", "m", "p", "3">>)>>,
                     << <<"s", "u", "b">>, <<"b", ".", "w", "a", "v">> >> >>
    /\ scanResult[3]
    /\ Len(scanResult[1]) = 2
    /\ scanResult[1][2].target_wav_path
          = ConvertedWavsRootPath \o << <<"s", "u", "b">>, <<"b", ".", "w", "a", "v">> >>

\* C22: a loaded RunConfiguration is never mutated: after any sequence of
\* tasks, with or without diarization overrides, the mapping of every
\* loaded configuration equals the mapping read from the configuration
\* document; the overrides and the keys removed for the service call exist
\* only in per-task copies.
C22_LoadedConfigurationNeverMutated ==
    pc \in {"transcribe", "done"} /\ outcome.kind \in {"running", "finished"}
        => configurations = LoadedConfigurations

\* a task ran with both overrides in its copy and the loaded mapping has
\* neither
C22_Witness ==
    /\ task.kind = "real"
    /\ task.ci = 1
    /\ "huggingface_token" \in DOMAIN task.config
    /\ task.config["enable_diarization"] = TRUE
    /\ "huggingface_token" \notin DOMAIN configurations[1]
    /\ "enable_diarization" \notin DOMAIN configurations[1]
    /\ "description" \in DOMAIN configurations[1]

\* this step is one iteration of the transcription loop, real or dry
TaskStep == pc = "transcribe" /\ <<ci, fi>>' # <<ci, fi>>

\* the pair that follows (c, f) in configuration-major order
LexSuccessor(c, f) == IF f < FilesPrepared THEN <<c, f + 1>> ELSE <<c + 1, 1>>

C23_Step ==
    TaskStep =>
        \* the task executed is that of the configuration and the file the
        \* document and the discovery put at this position
        /\ <<task'.ci, task'.fi>> = <<ci, fi>>
        /\ task'.kind = "real" =>
              /\ task'.config = TaskConfig(configDoc[task'.ci], args)
              /\ task'.filename = PathStr(wavList[task'.fi])
        \* it is the first pair, or the pair that follows the previous task
        /\ <<task'.ci, task'.fi>> =
              IF task.kind = "none" THEN <<1, 1>> ELSE LexSuccessor(task.ci, task.fi)
        \* the pair had not been executed and now has been, once
        /\ ~args.dry_run =>
              /\ calls[<<fi, ci>>].attempts = 0
              /\ calls'[<<fi, ci>>].attempts = 1
              /\ \A p \in Pairs \ {<<fi, ci>>} : calls'[p] = calls[p]
        \* the loop ends with the last pair, every pair executed once
        /\ pc' = "done" =>
              /\ <<task'.ci, task'.fi>> = <<ConfigsToRun, FilesPrepared>>
              /\ ~args.dry_run =>
                    \A f \in 1..FilesPrepared, c \in 1..ConfigsToRun :
                        calls'[<<f, c>>].attempts = 1

\* C23: tasks are executed in configuration-major order: for the
\* configurations in document order and the files in discovery order, task
\* (ci, fj) is executed before task (ck, fl) exactly when (i, j) precedes
\* (k, l) lexicographically, each pair is executed exactly once, and a task
\* begins only after the previous one has completed or failed.
C23_ConfigurationMajorOrder == [][C23_Step]_vars

\* a 2 x 2 matrix ended: the last task is (2, 2) and the first
\* configuration's tasks include a failed one
C23_Witness ==
    /\ pc = "done" /\ reported /\ ~args.dry_run
    /\ FilesPrepared = 2 /\ ConfigsToRun = 2
    /\ <<task.ci, task.fi>> = <<2, 2>>
    /\ Errors >= 1
    /\ \A p \in Pairs : calls[p].attempts = 1

\* C24: whenever a conversion returns failure (the transcoder exits
\* non-zero, or an exception is raised during the conversion call), the
\* target path does not exist afterwards, so that a later run without
\* force-reconvert cannot take a partial output for an existing target.
C24_FailedConversionLeavesNoTarget ==
    (conv.kind = "step" /\ conv.tool = "run_whisper" /\ conv.counter = "conversion_failed")
        => ~conv.after.present

\* the value the claim gives the setting key in the payload of a task run
\* with config: the configuration's value when it names the setting (vad
\* names enable_silero_vad_filter, the model is written in lower case),
\* the default of the registry otherwise
ExpectedSetting(config, key) ==
    IF key = "model" /\ "model" \in DOMAIN config THEN Lower(config["model"])
    ELSE IF key = "enable_silero_vad_filter" /\ "vad" \in DOMAIN config THEN config["vad"]
    ELSE IF key \in DOMAIN config THEN config[key]
    ELSE WhisperSettingsInit[key][2]

\* C25: the request payload sent to the service for a task has exactly one
\* entry per recognised setting (the opaque service keys are pairwise
\* distinct); the opaque key of every setting named in the task's
\* configuration carries the configuration's value and every other setting
\* carries its registry default, so that no value set for an earlier task
\* carries over to a later one.  upload_file carries the file of the task.
C25_PayloadIsConfigurationOverDefaults ==
    (task.kind = "real" /\ task.payload # None) =>
        /\ Cardinality(DOMAIN task.payload) = Cardinality(SettingKeys)
        /\ \A key \in SettingKeys \ {"upload_file"} :
              task.payload[WhisperSettingsInit[key][1]] = ExpectedSetting(task.config, key)
        /\ task.payload["files"] = <<"handle_file", task.filename>>

\* C26: distinct discovered source files are mapped to distinct conversion
\* targets, so the list of files prepared for transcription contains no
\* path twice and no (converted file, configuration) pair is submitted
\* more than once in a run, also for sources that differ only in their
\* extension.
C26_DistinctSourcesDistinctTargets ==
    /\ \A i, k \in DOMAIN sources :
          TargetWavPath(sources[i]) = TargetWavPath(sources[k]) => i = k
    /\ \A i, k \in DOMAIN wavList : wavList[i] = wavList[k] => i = k

\* the conversion phase of this run is over
ConversionPhaseEnded == pc \in {"transcribe", "done"} /\ si = Len(sources) + 1 /\ sources # << >>

\* C27: every discovered source file is classified exactly once in the
\* conversion phase: when the phase ends, source_files_found =
\* files_converted + files_copied_as_wav + conversion_skipped_exists +
\* conversion_failed, and the number of files prepared for transcription is
\* source_files_found - conversion_failed, in real and in dry-run mode.
C27_EverySourceClassifiedOnce ==
    ConversionPhaseEnded =>
        /\ summary.source_files_found = Len(sources)
        /\ summary.source_files_found =
              summary.files_converted + summary.files_copied_as_wav
                  + summary.conversion_skipped_exists + summary.conversion_failed
        /\ Len(wavList) = summary.source_files_found - summary.conversion_failed
        /\ summary.wav_files_for_transcription = Len(wavList)

\* a phase of two files ended with one copied and prepared, one failed
C27_Witness ==
    /\ ConversionPhaseEnded
    /\ ~args.dry_run
    /\ summary.source_files_found = 2
    /\ summary.conversion_failed = 1
    /\ summary.files_copied_as_wav = 1
    /\ Len(wavList) = 1

\* the fields of a log record other than all_parameters_used; each holds a string
LogStringFields ==
    {"original_file_relative_to_raw_audio", "processed_wav_filename",
     "transcription_output_directory", "transcription_run_datetime_utc",
     "configuration_description", "configuration_model", "configuration_language"}

\* C28: the diarization bearer token read from HF_TOKEN is never written
\* to a persisted provenance log: no log record's all_parameters_used, nor
\* any other field, contains the token value, in any run with diarization
\* enabled.
C28_TokenNeverLogged ==
    (task.kind = "real" /\ task.log.written = 1 /\ args.enable_diarization
        /\ Truthy(args.hf_token)) =>
        /\ \A field \in LogStringFields : task.log.data[field] # args.hf_token
        /\ "huggingface_token" \in DOMAIN task.log.data.all_parameters_used =>
              task.log.data.all_parameters_used["huggingface_token"] # args.hf_token

\* output_path / date / tag / model / vad_status, as the parts of a path
DefaultSaveDirectory(c) ==
    ParsePath(c.output_path)
        \o <<DateStringUnderscore(clock)>>
        \o (IF Truthy(c.tag) THEN <<c.tag>> ELSE << >>)
        \o <<Lower(c.model), VadStatus(c.vad)>>

\* C29: when Transcriber.transcribe is called without
\* override_output_folder and the service returns k >= 1 output files, all
\* k files are saved in the same directory output_path / date / tag /
\* model / vad_status; the directory of the i-th file does not depend on i.
C29_AllFilesInOneDirectory ==
    (saveResult # Unset /\ saveResult[2].override_output_folder = None) =>
        \A i \in DOMAIN saveResult[1] :
            ParsePath(saveResult[1][i].directory) = DefaultSaveDirectory(saveResult[2])

\* the task of this step tried to write its provenance log and failed
LogWriteFailed(t) == t.kind = "real" /\ t.env.log = "fail"

C30_Step ==
    (RealTaskStep /\ LogWriteFailed(task')) =>
        /\ task'.log.written = 0
        \* the service is invoked whenever the task's own checks pass
        /\ (task'.env.client = "ok" /\ ReachesSettingsCheck(task')
                /\ ~HasUnknownSetting(task'.config))
              => task'.predict = 1
        \* and the task is counted as submitted when the call succeeds
        /\ (task'.predict = 1 /\ task'.env.svc = "ok") =>
              /\ task'.raised = "none"
              /\ Submitted' = Submitted + 1
              /\ Errors' = Errors

\* C30: a failure while writing the provenance log (the output directory
\* cannot be created, the file cannot be opened) does not fail the task:
\* the error is swallowed, the transcription service is still invoked, and
\* the task is counted as submitted, not as failed, when the service call
\* succeeds.
C30_LogFailureDoesNotFailTask == [][C30_Step]_vars

\* a task whose log could not be written was submitted
C30_Witness ==
    /\ LogWriteFailed(task)
    /\ task.log.written = 0
    /\ task.predict = 1
    /\ task.raised = "none"
    /\ Submitted >= 1
    /\ Errors = 0

====
